---------------------------- MODULE Spec2Model ----------------------------
(***************************************************************************)
(* The event-consensus pipeline of the Aegis protocol prototype:           *)
(*   DisasterParserAgent -> ValidatorAgent (stake) -> ConsensusManagerAgent*)
(*   -> EventFactoryAgent (Event DAO, vault), driven by AegisOrchestrator.  *)
(*                                                                         *)
(* Numbers.  Python floats are modelled by exact fixed-point integers:     *)
(*   - a confidence or a ratio c is the integer c * ConfOne (1.0 = 400,    *)
(*     so 0.7125 = 285, 0.855 = 342, 0.1 = 40 are all exact);              *)
(*   - a stake or a validator balance of x tokens is x * MoneyUnit, so     *)
(*     that the 50%-of-balance cap is exact;                               *)
(*   - a float quotient n / d is the pair [num |-> n, den |-> d] in lowest *)
(*     terms, so that equal quotients are equal values;                    *)
(*   - the weighted sums of _calculate_consensus are taken over the stakes *)
(*     divided by their greatest common divisor, which leaves both         *)
(*     quotients as they are and keeps the products small;                 *)
(*   - the vault and the DAO treasuries are whole dollars.                 *)
(* Rounding of the float sums is therefore not modelled.                   *)
(***************************************************************************)
EXTENDS Integers, Sequences, FiniteSets, TLC

VARIABLES
    now,                      \* the reading datetime.now() gives the parsers
    active_events,            \* AegisOrchestrator.active_events
    event_pipeline,           \* AegisOrchestrator.event_pipeline
    stake_balance,            \* ValidatorAgent.stake_balance, per validator
    validation_history,       \* len(ValidatorAgent.validation_history), per validator
    last_validation,          \* the ValidationResult ValidatorAgent.process returned last
    pending_validations,      \* ConsensusManagerAgent.pending_validations
    consensus_results,        \* ConsensusManagerAgent.consensus_results
    active_daos,              \* EventFactoryAgent.active_daos
    parametric_vault_balance, \* EventFactoryAgent.parametric_vault_balance
    event_log,                \* the logger lines of the pipeline, per event_id
    vault_balance,            \* ParametricInsuranceVault.balance
    payout_history,           \* ParametricInsuranceVault.payout_history
    action_inbox,             \* the events ctx.send delivered to the Action Agent
    handler_log,              \* the handler runs of the validator agents, in order
    monitoring_active,        \* DecentralizedOracleNetwork.monitoring_active
    monitoring_tasks,         \* DecentralizedOracleNetwork.monitoring_tasks
    asyncio_tasks,            \* every asyncio task start_monitoring created
    polls,                    \* the polling cycles begun so far, over all tasks
    last_call,                \* how the latest call of process_raw_data ended
    oracle_agent,             \* the oracle agent process: its module globals and handler runs
    governance,               \* GovernanceSystem: active_proposals and the proposals executed
    ic_state,                 \* action_agent.py: ic_state, the startup hook, the canister calls
    api_server,               \* api_server.py: aegis_system and the systems it has created
    ws_server                 \* api_server.py: connected_websockets, endpoints and broadcasts

vars == <<now, active_events, event_pipeline, stake_balance, validation_history,
          last_validation, pending_validations, consensus_results, active_daos,
          parametric_vault_balance, event_log, vault_balance, payout_history,
          action_inbox, handler_log, monitoring_active, monitoring_tasks, asyncio_tasks,
          polls, last_call, oracle_agent, governance, ic_state, api_server, ws_server>>

\* the state of the governance system, the action agent and the API server
service_vars == <<governance, ic_state, api_server, ws_server>>

\* the state of the uagents services and of the oracle network, which the
\* consensus pipeline and the vault never touch
agent_vars == <<action_inbox, handler_log, monitoring_active, monitoring_tasks,
                asyncio_tasks, polls, last_call, oracle_agent, service_vars>>

---------------------------------------------------------------------------
(* Fixed point *)

ConfOne == 400
MoneyUnit == 16

Tokens(x) == x * MoneyUnit

RECURSIVE GCD(_, _)
GCD(a, b) == IF b = 0 THEN a ELSE GCD(b, a % b)

\* n / d as Python computes it, kept exact (n >= 0, d > 0)
Quot(n, d) == [num |-> n \div GCD(n, d), den |-> d \div GCD(n, d)]
Zero == [num |-> 0, den |-> 1]
\* q >= t, q < t for a quotient q and a fixed-point number t
AtLeast(q, t) == q.num >= t * q.den
Below(q, t) == q.num < t * q.den

\* a Python dict: a function whose domain is the set of keys present
Put(d, k, v) == [x \in (DOMAIN d) \cup {k} |-> IF x = k THEN v ELSE d[x]]
EmptyDict == [x \in {} |-> 0]

---------------------------------------------------------------------------
(* Program constants *)

MinValidators == 3
ConsensusThreshold == (7 * ConfOne) \div 10
MinAcceptConfidence == (8 * ConfOne) \div 10
InitialFunding == 2000000
InitialVault == 10000000
InitialBalance == 10000000

Validators == {"multimodal_validator", "earthquake_validator", "social_validator"}

---------------------------------------------------------------------------
(* ConsensusManagerAgent *)

\* the greatest common divisor of the stakes of a list (1 when all are 0)
RECURSIVE StakeDivisor(_)
StakeDivisor(validations) ==
    IF validations = <<>> THEN 0
    ELSE GCD(validations[Len(validations)].stake_amount,
             StakeDivisor(SubSeq(validations, 1, Len(validations) - 1)))

StakeUnit(validations) ==
    IF StakeDivisor(validations) = 0 THEN 1 ELSE StakeDivisor(validations)

\* weight = stake_amount * confidence, in stake units
Weight(v, unit) == (v.stake_amount \div unit) * v.confidence

RECURSIVE TotalWeight(_, _)
TotalWeight(validations, unit) ==
    IF validations = <<>> THEN 0
    ELSE TotalWeight(SubSeq(validations, 1, Len(validations) - 1), unit)
         + Weight(validations[Len(validations)], unit)

RECURSIVE WeightedConfidence(_, _)
WeightedConfidence(validations, unit) ==
    IF validations = <<>> THEN 0
    ELSE WeightedConfidence(SubSeq(validations, 1, Len(validations) - 1), unit)
         + validations[Len(validations)].confidence
               * Weight(validations[Len(validations)], unit)

StakeTermWeighted(v) == (v.stake_amount \div MoneyUnit) * v.confidence

\* the amount one validation adds to total_stake_positive / total_stake_negative
StakeTerm(v) == v.stake_amount

RECURSIVE TotalStake(_, _)
TotalStake(validations, prediction) ==
    IF validations = <<>> THEN 0
    ELSE LET v == validations[Len(validations)]
         IN  TotalStake(SubSeq(validations, 1, Len(validations) - 1), prediction)
             + (IF v.prediction = prediction THEN StakeTerm(v) ELSE 0)

PositiveRatioOfQuorum(validations) ==
    LET quorum == SubSeq(validations, 1, MinValidators)
        total_stake_positive == TotalStake(quorum, TRUE)
        total_stake == total_stake_positive + TotalStake(quorum, FALSE)
    IN  IF total_stake > 0 THEN Quot(total_stake_positive * ConfOne, total_stake)
        ELSE Zero

PositiveRatioElseOne(validations) ==
    LET total_stake_positive == TotalStake(validations, TRUE)
        total_stake == total_stake_positive + TotalStake(validations, FALSE)
    IN  IF total_stake > 0 THEN Quot(total_stake_positive * ConfOne, total_stake)
        ELSE Quot(ConfOne, 1)

PositiveRatio(validations) ==
    LET total_stake_positive == TotalStake(validations, TRUE)
        total_stake == total_stake_positive + TotalStake(validations, FALSE)
    IN  IF total_stake > 0 THEN Quot(total_stake_positive * ConfOne, total_stake)
        ELSE Zero

DecideAboveThreshold(positive_ratio) ==
    positive_ratio.num > ConsensusThreshold * positive_ratio.den

Decide(positive_ratio) == AtLeast(positive_ratio, ConsensusThreshold)

CalculateConsensus(event_id, validations) ==
    LET unit == StakeUnit(validations)
        total_weight == TotalWeight(validations, unit)
        positive_ratio == PositiveRatio(validations)
    IN  [event_id |-> event_id,
         decision |-> Decide(positive_ratio),
         confidence |-> IF total_weight > 0
                        THEN Quot(WeightedConfidence(validations, unit), total_weight)
                        ELSE Zero,
         positive_ratio |-> positive_ratio,
         total_validators |-> Len(validations)]

\* the logger line of _calculate_consensus
ConsensusLine(result) == [line |-> "consensus", decision |-> result.decision]

\* _distribute_rewards only logs: one line per validation
RewardLine(v, final_decision) ==
    IF v.prediction = final_decision
    THEN [line |-> "reward", validator_id |-> v.validator_id,
          amount |-> Quot(v.stake_amount * 12, 10)]
    ELSE [line |-> "penalty", validator_id |-> v.validator_id,
          amount |-> Quot(v.stake_amount, 1)]

DistributeRewards(validations, final_decision) ==
    [i \in 1..Len(validations) |-> RewardLine(validations[i], final_decision)]

QuorumReachedAtTwo(validations) == Len(validations) >= 2

\* whether process computes a decision for a list of this length
QuorumReached(validations) == Len(validations) >= MinValidators

\* the list process appends the new validation to
Collected(pending, validation_result) ==
    IF validation_result.event_id \in DOMAIN pending
    THEN pending[validation_result.event_id]
    ELSE <<>>

\* ConsensusManagerAgent.process on the state s; ret is <<>> for None
ConsensusProcess(s, validation_result) ==
    LET event_id == validation_result.event_id
        validations == Append(Collected(s.pending_validations, validation_result),
                              validation_result)
        pending == Put(s.pending_validations, event_id, validations)
        old_log == IF event_id \in DOMAIN s.event_log THEN s.event_log[event_id] ELSE <<>>
    IN  IF QuorumReached(validations)
        THEN LET consensus_result == CalculateConsensus(event_id, validations)
             IN  [state |-> [s EXCEPT
                        !.pending_validations = pending,
                        !.consensus_results =
                            Put(s.consensus_results, event_id, consensus_result),
                        !.event_log = Put(s.event_log, event_id,
                            old_log \o <<ConsensusLine(consensus_result)>>
                                    \o DistributeRewards(validations,
                                                         consensus_result.decision))],
                  ret |-> <<consensus_result>>]
        ELSE [state |-> [s EXCEPT !.pending_validations = pending],
              ret |-> <<>>]

---------------------------------------------------------------------------
(* EventFactoryAgent *)

DaoId(event_id) == <<"dao", event_id>>

ConfirmedByDecision(consensus_result) == consensus_result.decision

\* the first guard of process: the decision is accept and confident enough
Confirmed(consensus_result) ==
    ~(~consensus_result.decision
      \/ Below(consensus_result.confidence, MinAcceptConfidence))

VaultCoversWhileNotOverdrawn(balance, funding) == balance >= 0

\* the vault check of process
VaultCovers(balance, funding) == ~(balance < funding)

LogLine(log, event_id, entry) ==
    Put(log, event_id,
        (IF event_id \in DOMAIN log THEN log[event_id] ELSE <<>>) \o <<entry>>)

\* EventFactoryAgent.process on the state s; ret is <<>> for None
EventFactoryProcess(s, consensus_result) ==
    LET event_id == consensus_result.event_id
        dao_id == DaoId(event_id)
    IN  IF ~Confirmed(consensus_result)
        THEN [state |-> s, ret |-> <<>>]
        ELSE IF ~VaultCovers(s.parametric_vault_balance, InitialFunding)
        THEN [state |-> [s EXCEPT !.event_log =
                            LogLine(s.event_log, event_id,
                                    [line |-> "insufficient_vault"])],
              ret |-> <<>>]
        ELSE LET event_dao == [dao_id |-> dao_id,
                               event_id |-> event_id,
                               status |-> "active",
                               treasury_balance |-> InitialFunding,
                               participants |-> <<>>,
                               proposals |-> <<>>]
             IN  [state |-> [s EXCEPT
                        !.parametric_vault_balance =
                            s.parametric_vault_balance - InitialFunding,
                        !.active_daos = Put(s.active_daos, dao_id, event_dao),
                        !.event_log = LogLine(s.event_log, event_id,
                                              [line |-> "dao_created"])],
                  ret |-> <<event_dao>>]

---------------------------------------------------------------------------
(* AegisOrchestrator *)

SetPipeline(s, event_id, status) ==
    [s EXCEPT !.event_pipeline = Put(s.event_pipeline, event_id, status)]

\* _generate_logistics_plan: active_events[event_id] raises KeyError for an
\* event the orchestrator never parsed, and the status is then left as it was
GenerateLogisticsPlan(s, event_dao) ==
    IF event_dao.event_id \in DOMAIN s.active_events
    THEN SetPipeline(s, event_dao.event_id, "logistics_planned")
    ELSE s

InitiateCommunications(s, event_dao) ==
    SetPipeline(s, event_dao.event_id, "notifications_sent")

CreateEventDao(s, consensus_result) ==
    LET made == EventFactoryProcess(s, consensus_result)
    IN  IF made.ret # <<>>
        THEN GenerateLogisticsPlan(
                 InitiateCommunications(
                     SetPipeline(made.state, consensus_result.event_id, "dao_created"),
                     made.ret[1]),
                 made.ret[1])
        ELSE made.state

\* _process_validation_result on the state s
ProcessValidationResult(s, validation_result) ==
    LET got == ConsensusProcess(s, validation_result)
    IN  IF got.ret # <<>>
        THEN LET consensus_result == got.ret[1]
                 event_id == consensus_result.event_id
                 reached == SetPipeline(got.state, event_id, "consensus_reached")
             IN  IF consensus_result.decision
                 THEN CreateEventDao(reached, consensus_result)
                 ELSE [SetPipeline(reached, event_id, "false_alarm") EXCEPT
                          !.event_log = LogLine(reached.event_log, event_id,
                                                [line |-> "false_alarm"])]
        ELSE got.state

\* the state the orchestrator's handlers read and write
State ==
    [active_events |-> active_events,
     event_pipeline |-> event_pipeline,
     pending_validations |-> pending_validations,
     consensus_results |-> consensus_results,
     active_daos |-> active_daos,
     parametric_vault_balance |-> parametric_vault_balance,
     event_log |-> event_log]

Commit(s) ==
    /\ active_events' = s.active_events
    /\ event_pipeline' = s.event_pipeline
    /\ pending_validations' = s.pending_validations
    /\ consensus_results' = s.consensus_results
    /\ active_daos' = s.active_daos
    /\ parametric_vault_balance' = s.parametric_vault_balance
    /\ event_log' = s.event_log

---------------------------------------------------------------------------
(* Construction: AegisOrchestrator.setup_agents *)

InitialStake(v) ==
    CASE v = "earthquake_validator" -> Tokens(10000)
      [] v = "multimodal_validator" -> Tokens(8000)
      [] v = "social_validator" -> Tokens(5000)

\* The oracle agent before its module is imported: no address read, nothing
\* seen, no handler run in flight, nothing sent.
NotImported ==
    [loaded |-> FALSE, VALIDATOR_AGENT_ADDRESS |-> <<>>, SEEN_EVENT_IDS |-> {},
     runs |-> EmptyDict, intervals |-> 0, duplicates |-> {}, sent |-> <<>>]

Init ==
    /\ now = 1
    /\ active_events = EmptyDict
    /\ event_pipeline = EmptyDict
    /\ stake_balance = [v \in Validators |-> InitialStake(v)]
    /\ validation_history = [v \in Validators |-> 0]
    /\ last_validation = EmptyDict
    /\ pending_validations = EmptyDict
    /\ consensus_results = EmptyDict
    /\ active_daos = EmptyDict
    /\ parametric_vault_balance = InitialVault
    /\ event_log = EmptyDict
    /\ vault_balance = InitialBalance
    /\ payout_history = <<>>
    /\ action_inbox = <<>>
    /\ handler_log = <<>>
    /\ monitoring_active = FALSE
    /\ monitoring_tasks = EmptyDict
    /\ asyncio_tasks = EmptyDict
    /\ polls = 0
    /\ last_call = <<>>
    /\ oracle_agent = NotImported
    /\ governance = [active_proposals |-> EmptyDict, executed |-> <<>>]
    /\ ic_state = [agent |-> <<>>, factory_canister_id |-> <<>>, is_ready |-> FALSE,
                   startup |-> "not_started", calls |-> <<>>, dropped |-> 0]
    /\ api_server = [aegis_system |-> <<>>, systems |-> EmptyDict, loops |-> EmptyDict,
                     polls |-> 0]
    /\ ws_server = [connected_websockets |-> <<>>, endpoints |-> EmptyDict,
                    broadcasts |-> EmptyDict, raised |-> {}]

---------------------------------------------------------------------------
(* Scores fed to _process_validation_result one at a time *)

MaxScores == 4

ScoreEventIds == {<<"earthquake", "jakarta", 1>>, <<"flood", "jakarta", 1>>}

\* <<validator, prediction, confidence (1/400), stake in tokens>>
ScoreTuples ==
    {<<"earthquake_validator", TRUE, 360, 1000>>,
     <<"multimodal_validator", TRUE, 340, 800>>,
     <<"social_validator", FALSE, 240, 500>>,
     <<"multimodal_validator", FALSE, 400, 800>>,
     <<"social_validator", TRUE, 240, 500>>,
     <<"social_validator", TRUE, 200, 0>>}

ValidationResult(validator_id, event_id, confidence, stake_amount, prediction) ==
    [validator_id |-> validator_id,
     event_id |-> event_id,
     confidence |-> confidence,
     stake_amount |-> stake_amount,
     prediction |-> prediction]

ScoreInputs ==
    {ValidationResult(t[1], e, t[3], Tokens(t[4]), t[2]) :
        t \in ScoreTuples, e \in ScoreEventIds}

RECURSIVE TotalScores(_)
TotalScores(pending) ==
    IF DOMAIN pending = {} THEN 0
    ELSE LET e == CHOOSE x \in DOMAIN pending : TRUE
         IN  Len(pending[e])
             + TotalScores([x \in (DOMAIN pending) \ {e} |-> pending[x]])

SubmitScore(validation_result) ==
    /\ TotalScores(pending_validations) < MaxScores
    /\ Commit(ProcessValidationResult(State, validation_result))
    /\ UNCHANGED <<now, stake_balance, validation_history, last_validation,
                   vault_balance, payout_history, agent_vars>>

NextScores == \E r \in ScoreInputs : SubmitScore(r)

SpecScores == Init /\ [][NextScores]_vars

---------------------------------------------------------------------------
(* Scores of one event whose stakes put positive_ratio at and next to 0.7 *)

MaxBoundaryScores == 3

BoundaryEventId == <<"earthquake", "jakarta", 1>>

\* 700 of 1000 is the threshold; 699 of 999 and 700 of 1001 are just below it
BoundaryInputs ==
    {ValidationResult("earthquake_validator", BoundaryEventId, 360, Tokens(400), TRUE),
     ValidationResult("multimodal_validator", BoundaryEventId, 340, Tokens(300), TRUE),
     ValidationResult("multimodal_validator", BoundaryEventId, 340, Tokens(299), TRUE),
     ValidationResult("social_validator", BoundaryEventId, 240, Tokens(300), FALSE),
     ValidationResult("social_validator", BoundaryEventId, 240, Tokens(301), FALSE)}

SubmitBoundaryScore(validation_result) ==
    /\ TotalScores(pending_validations) < MaxBoundaryScores
    /\ Commit(ProcessValidationResult(State, validation_result))
    /\ UNCHANGED <<now, stake_balance, validation_history, last_validation,
                   vault_balance, payout_history, agent_vars>>

NextBoundary == \E r \in BoundaryInputs : SubmitBoundaryScore(r)

SpecBoundary == Init /\ [][NextBoundary]_vars

---------------------------------------------------------------------------
(* Scores fed until the vault is spent: one event is scored again and again *)
(* by the earthquake validator, a second event by two validators.          *)

MaxVaultScores == 10

DrainedEventId == <<"earthquake", "jakarta", 1>>
LateEventId == <<"flood", "jakarta", 1>>

VaultInputs ==
    {ValidationResult("earthquake_validator", DrainedEventId, 360, Tokens(1000), TRUE),
     ValidationResult("earthquake_validator", LateEventId, 360, Tokens(1000), TRUE),
     ValidationResult("social_validator", LateEventId, 240, Tokens(500), FALSE)}

SubmitVaultScore(validation_result) ==
    /\ TotalScores(pending_validations) < MaxVaultScores
    /\ Commit(ProcessValidationResult(State, validation_result))
    /\ UNCHANGED <<now, stake_balance, validation_history, last_validation,
                   vault_balance, payout_history, agent_vars>>

NextVault == \E r \in VaultInputs : SubmitVaultScore(r)

SpecVault == Init /\ [][NextVault]_vars

---------------------------------------------------------------------------
(* DisasterParserAgent *)

\* AlertLevel values
LOW == 1
MEDIUM == 2
HIGH == 3
CRITICAL == 4
EMERGENCY == 5

\* magnitude in tenths
MapMagnitudeToSeverity(magnitude) ==
    IF magnitude >= 70 THEN EMERGENCY
    ELSE IF magnitude >= 60 THEN CRITICAL
    ELSE IF magnitude >= 50 THEN HIGH
    ELSE IF magnitude >= 40 THEN MEDIUM
    ELSE LOW

MapConfidenceToSeverity(confidence) ==
    IF confidence >= 90 THEN CRITICAL
    ELSE IF confidence >= 70 THEN HIGH
    ELSE IF confidence >= 50 THEN MEDIUM
    ELSE LOW

\* md5 of type, location and timestamp, taken to be injective
EventId(disaster_type, location, timestamp) == <<disaster_type, location, timestamp>>

DisasterEvent(disaster_type, location, severity, timestamp, confidence_score, data_sources) ==
    [event_id |-> EventId(disaster_type, location, timestamp),
     disaster_type |-> disaster_type,
     location |-> location,
     severity |-> severity,
     timestamp |-> timestamp,
     confidence_score |-> confidence_score,
     data_sources |-> data_sources]

\* DisasterParserAgent.process by source type; <<>> for None
Parse(raw_data, timestamp) ==
    CASE raw_data.source_type = "bmkg_earthquake" ->
            <<DisasterEvent("earthquake", raw_data.location,
                            MapMagnitudeToSeverity(raw_data.magnitude), timestamp,
                            (95 * ConfOne) \div 100, {"bmkg_autogempa"})>>
      [] raw_data.source_type = "petabencana_flood" ->
            <<DisasterEvent("flood", raw_data.location, HIGH, timestamp,
                            (85 * ConfOne) \div 100, {"petabencana"})>>
      [] raw_data.source_type = "nasa_firms_fire" ->
            <<DisasterEvent("fire", raw_data.location,
                            MapConfidenceToSeverity(raw_data.confidence), timestamp,
                            (raw_data.confidence * ConfOne) \div 100, {"nasa_firms"})>>
      [] raw_data.source_type = "social_media" ->
            <<DisasterEvent(raw_data.predicted_type, raw_data.location, MEDIUM, timestamp,
                            raw_data.ai_confidence, {"social_media"})>>
      [] OTHER -> <<>>

---------------------------------------------------------------------------
(* ValidatorAgent *)

ModelType(v) ==
    CASE v = "earthquake_validator" -> "earthquake_specialist"
      [] v = "multimodal_validator" -> "multi_modal_detector"
      [] v = "social_validator" -> "social_signal_analyzer"

\* random.uniform(-0.1, 0.1), sampled at its ends
Noise == {-40, 40}

\* <<prediction, base_confidence>> of _run_validation_model
BaseValidation(model_type, event) ==
    LET cs == event.confidence_score
    IN  IF model_type = "earthquake_specialist" /\ event.disaster_type = "earthquake"
        THEN <<event.severity >= 3, (9 * cs) \div 10>>
        ELSE IF model_type = "multi_modal_detector"
        THEN <<cs * 10 > 7 * ConfOne, (3 * cs) \div 4>>
        ELSE IF model_type = "social_signal_analyzer"
        THEN IF "social_media" \in event.data_sources
             THEN <<cs * 10 > 5 * ConfOne, (3 * cs) \div 5>>
             ELSE <<FALSE, (3 * ConfOne) \div 10>>
        ELSE <<cs * 10 > 6 * ConfOne, cs \div 2>>

Clamp(x) == IF x > ConfOne THEN ConfOne ELSE IF x < 0 THEN 0 ELSE x

WholeBalance(balance) == balance

Half(balance) == balance \div 2

Min(a, b) == IF a <= b THEN a ELSE b

CalculateStakeAmountOfInitial(initial_stake, balance, event) == initial_stake \div 10

CalculateStakeAmountUncapped(initial_stake, balance, event) ==
    (initial_stake * event.confidence_score * event.severity) \div (10 * ConfOne * 5)

\* _calculate_stake_amount: min(balance * 0.5, base_stake * confidence * severity / 5)
CalculateStakeAmount(initial_stake, balance, event) ==
    Min(Half(balance),
        (initial_stake * event.confidence_score * event.severity) \div (10 * ConfOne * 5))

\* BaseAgent.stake_tokens: whether the amount is taken
StakeTokens(balance, amount) == amount <= balance

\* ValidatorAgent.process of validator v holding `balance`:
\* the result it returns and what it leaves of the balance
Validate(v, balance, event, noise) ==
    LET stake_amount == CalculateStakeAmount(InitialStake(v), balance, event)
        model == BaseValidation(ModelType(v), event)
        staked == StakeTokens(balance, stake_amount)
    IN  [result |-> ValidationResult(v, event.event_id, Clamp(model[2] + noise),
                                     stake_amount, model[1]),
         staked |-> staked,
         balance |-> IF staked THEN balance - stake_amount ELSE balance]

---------------------------------------------------------------------------
(* A ValidatorAgent scoring events one after the other *)

MaxScorings == 11

Locations == {"jakarta"}

RawInputs ==
    [source_type : {"bmkg_earthquake"}, location : Locations, magnitude : {35, 72}]
    \cup [source_type : {"petabencana_flood"}, location : Locations]
    \cup [source_type : {"nasa_firms_fire"}, location : Locations, confidence : {60, 95}]
    \cup [source_type : {"social_media"}, location : Locations,
          predicted_type : {"earthquake", "flood"},
          ai_confidence : {ConfOne \div 2, ConfOne}]
    \cup [source_type : {"unknown"}]

SampleEvents == {Parse(raw, 1)[1] : raw \in {r \in RawInputs : Parse(r, 1) # <<>>}}

\* the events scored here: the confident ones that are no fire
ScoringEvents ==
    {event \in SampleEvents :
        event.disaster_type # "fire" /\ 2 * event.confidence_score > ConfOne}

\* one agent at a time: the agents share no state
ValidatorProcess(v, event, noise) ==
    /\ validation_history[v] < MaxScorings
    /\ \A w \in Validators \ {v} : validation_history[w] = 0
    /\ LET done == Validate(v, stake_balance[v], event, noise)
       IN  /\ stake_balance' = [stake_balance EXCEPT ![v] = done.balance]
           /\ validation_history' =
                  [validation_history EXCEPT ![v] = IF done.staked THEN @ + 1 ELSE @]
           /\ last_validation' = Put(last_validation, v, done.result)
    /\ UNCHANGED <<now, active_events, event_pipeline, pending_validations,
                   consensus_results, active_daos, parametric_vault_balance, event_log,
                   vault_balance, payout_history, agent_vars>>

NextValidator ==
    \E v \in Validators, event \in ScoringEvents, noise \in Noise :
        ValidatorProcess(v, event, noise)

SpecValidator == Init /\ [][NextValidator]_vars

---------------------------------------------------------------------------
(* AegisOrchestrator.process_raw_data *)

MaxCalls == 2

ValidationTasksOfAll(event) ==
    <<"multimodal_validator", "earthquake_validator", "social_validator">>

ValidationTasksSocialAlways(event) ==
    <<"multimodal_validator">>
    \o (IF event.disaster_type = "earthquake" THEN <<"earthquake_validator">> ELSE <<>>)
    \o <<"social_validator">>

\* _initiate_validation_process: the validators invoked for an event, in task order
ValidationTasks(event) ==
    <<"multimodal_validator">>
    \o (IF event.disaster_type = "earthquake" THEN <<"earthquake_validator">> ELSE <<>>)
    \o (IF "social_media" \in event.data_sources THEN <<"social_validator">> ELSE <<>>)

\* the for loop of _initiate_validation_process over the gathered results
RECURSIVE FeedResults(_, _)
FeedResults(s, results) ==
    IF results = <<>> THEN s
    ELSE FeedResults(ProcessValidationResult(s, Head(results)), Tail(results))

\* One call of process_raw_data.  Nothing in it suspends but the gather, and its
\* callers await it, so the call is one step.  timestamp is the clock reading of
\* the parser, which since the previous call has advanced or has not; noise is
\* the draw of each validator.
ProcessRawData(raw_data, timestamp, noise) ==
    /\ validation_history["multimodal_validator"] < MaxCalls
    /\ timestamp \in {now, now + 1}
    /\ LET parsed == Parse(raw_data, timestamp)
       IN  IF parsed = <<>>
           THEN UNCHANGED vars
           ELSE LET event == parsed[1]
                    tasks == ValidationTasks(event)
                    invoked == {tasks[i] : i \in 1..Len(tasks)}
                    done == [v \in invoked |->
                                Validate(v, stake_balance[v], event, noise[v])]
                    results == [i \in 1..Len(tasks) |-> done[tasks[i]].result]
                    started == SetPipeline(
                                   [State EXCEPT !.active_events =
                                       Put(active_events, event.event_id, event)],
                                   event.event_id, "validation_started")
                IN  /\ now' = timestamp
                    /\ stake_balance' =
                           [v \in Validators |->
                               IF v \in invoked THEN done[v].balance ELSE stake_balance[v]]
                    /\ validation_history' =
                           [v \in Validators |->
                               IF v \in invoked /\ done[v].staked
                               THEN validation_history[v] + 1
                               ELSE validation_history[v]]
                    /\ last_validation' =
                           [v \in (DOMAIN last_validation) \cup invoked |->
                               IF v \in invoked THEN done[v].result ELSE last_validation[v]]
                    /\ Commit(FeedResults(started, results))
                    /\ UNCHANGED <<vault_balance, payout_history, agent_vars>>

\* the draws of the three validators in one call: all low, all high, or the
\* multimodal validator high and the specialists low
NoiseDraws ==
    {[v \in Validators |-> -40], [v \in Validators |-> 40],
     [v \in Validators |-> IF v = "multimodal_validator" THEN 40 ELSE -40]}

Next ==
    \E raw_data \in RawInputs, timestamp \in {now, now + 1}, noise \in NoiseDraws :
        ProcessRawData(raw_data, timestamp, noise)

Spec == Init /\ [][Next]_vars

---------------------------------------------------------------------------
(* process_raw_data when the validation model of one invoked validator raises *)

MaxFaults == 1

\* The tasks of the gather run one after the other, each to its end, so the
\* validators that do not raise stake and record their score.  gather is called
\* without return_exceptions: the exception leaves it, then
\* _initiate_validation_process and process_raw_data, which catch nothing, and
\* the loop that feeds the results is never entered.
ProcessRawDataRaising(raw_data, timestamp, noise, raising) ==
    /\ \A v \in Validators : validation_history[v] < MaxFaults
    /\ timestamp \in {now, now + 1}
    /\ timestamp <= MaxFaults + 1
    /\ LET parsed == Parse(raw_data, timestamp)
       IN  /\ parsed # <<>>
           /\ LET event == parsed[1]
                  tasks == ValidationTasks(event)
                  invoked == {tasks[i] : i \in 1..Len(tasks)}
                  returned == invoked \ {raising}
                  done == [v \in returned |->
                              Validate(v, stake_balance[v], event, noise[v])]
                  started == SetPipeline(
                                 [State EXCEPT !.active_events =
                                     Put(active_events, event.event_id, event)],
                                 event.event_id, "validation_started")
              IN  /\ raising \in invoked
                  /\ Cardinality(DOMAIN started.active_events) <= MaxFaults + 1
                  /\ now' = timestamp
                  /\ stake_balance' =
                         [v \in Validators |->
                             IF v \in returned THEN done[v].balance ELSE stake_balance[v]]
                  /\ validation_history' =
                         [v \in Validators |->
                             IF v \in returned /\ done[v].staked
                             THEN validation_history[v] + 1
                             ELSE validation_history[v]]
                  /\ last_validation' =
                         [v \in (DOMAIN last_validation) \cup returned |->
                             IF v \in returned THEN done[v].result ELSE last_validation[v]]
                  /\ Commit(started)
                  /\ UNCHANGED <<vault_balance, payout_history, agent_vars>>

NextFaults ==
    \E raw_data \in RawInputs, timestamp \in {now, now + 1},
       noise \in [Validators -> Noise], raising \in Validators :
        ProcessRawDataRaising(raw_data, timestamp, noise, raising)

SpecFaults == Init /\ [][NextFaults]_vars

---------------------------------------------------------------------------
(* ParametricInsuranceVault *)

MaxPayouts == 2

\* _create_policies, in the insertion order of the dict; confidence in 1/400,
\* magnitude in tenths
Policies ==
    <<[policy_id |-> "earthquake_emergency",
       conditions |-> [min_magnitude |-> 60, min_confidence |-> (8 * ConfOne) \div 10],
       payout |-> 2000000],
      [policy_id |-> "flood_critical",
       conditions |-> [min_severity |-> 4, min_confidence |-> (75 * ConfOne) \div 100],
       payout |-> 1500000],
      [policy_id |-> "fire_major",
       conditions |-> [min_confidence |-> 80 * ConfOne, min_area |-> 50],
       payout |-> 1200000]>>

\* the body of the loop of _find_policy: no continue is taken
Matches(policy, event_data, consensus) ==
    LET conditions == policy.conditions
    IN  /\ "min_confidence" \in DOMAIN conditions
               => ~(consensus.confidence < conditions.min_confidence)
        /\ "min_magnitude" \in DOMAIN conditions
               => ~(event_data.metadata.magnitude < conditions.min_magnitude)
        /\ "min_severity" \in DOMAIN conditions
               => ~(event_data.severity < conditions.min_severity)

Matching(event_data, consensus) ==
    {i \in 1..Len(Policies) : Matches(Policies[i], event_data, consensus)}

FindPolicyLast(event_data, consensus) ==
    LET matching == Matching(event_data, consensus)
    IN  IF matching = {} THEN <<>>
        ELSE <<Policies[CHOOSE i \in matching : \A j \in matching : j <= i]>>

\* _find_policy: the first policy of the table whose conditions hold; <<>> for None
FindPolicy(event_data, consensus) ==
    LET matching == Matching(event_data, consensus)
    IN  IF matching = {} THEN <<>>
        ELSE <<Policies[CHOOSE i \in matching : \A j \in matching : i <= j]>>

PayoutRecord(event_id, policy_id, amount) ==
    [event_id |-> event_id,
     policy_id |-> policy_id,
     amount |-> amount,
     recipient_dao |-> DaoId(event_id)]

\* The arguments of auto_payout.  event_data describes an event of the
\* orchestrator: its id is that of its type, location and time, and the events
\* offered differ in their time, so that an id stands for one event_data.
PayoutMeasures ==
    {<<1, MEDIUM, 0>>, <<2, CRITICAL, 0>>, <<3, CRITICAL, 61>>, <<4, MEDIUM, 61>>}

PayoutEventData ==
    {[event_id |-> EventId(t, "jakarta", m[1]), disaster_type |-> t, severity |-> m[2],
      metadata |-> [magnitude |-> m[3]]] :
        t \in {"earthquake", "flood", "fire"}, m \in PayoutMeasures}

PayoutConsensus ==
    [decision : BOOLEAN,
     confidence : {(7 * ConfOne) \div 10, (78 * ConfOne) \div 100,
                   (85 * ConfOne) \div 100, 85 * ConfOne}]

AutoPayout(consensus_result, event_data) ==
    /\ Len(payout_history) < MaxPayouts
    /\ LET policy == FindPolicy(event_data, consensus_result)
       IN  IF ~consensus_result.decision \/ policy = <<>>
              \/ vault_balance < policy[1].payout
           THEN UNCHANGED <<vault_balance, payout_history>>
           ELSE /\ vault_balance' = vault_balance - policy[1].payout
                /\ payout_history' =
                       Append(payout_history,
                              PayoutRecord(event_data.event_id, policy[1].policy_id,
                                           policy[1].payout))
    /\ UNCHANGED <<now, active_events, event_pipeline, stake_balance, validation_history,
                   last_validation, pending_validations, consensus_results, active_daos,
                   parametric_vault_balance, event_log, agent_vars>>

NextPayout ==
    \E consensus_result \in PayoutConsensus, event_data \in PayoutEventData :
        AutoPayout(consensus_result, event_data)

SpecPayout == Init /\ [][NextPayout]_vars

---------------------------------------------------------------------------
(* Helpers of the properties *)

LogOf(event_id) == IF event_id \in DOMAIN event_log THEN event_log[event_id] ELSE <<>>

Lines(log, kinds) == {i \in 1..Len(log) : log[i].line \in kinds}

\* the decisions computed for an event, in the order they were computed
Decisions(log) ==
    LET RECURSIVE Pick(_)
        Pick(n) == IF n = 0 THEN <<>>
                   ELSE IF log[n].line = "consensus"
                        THEN Append(Pick(n - 1), log[n].decision)
                        ELSE Pick(n - 1)
    IN  Pick(Len(log))

EmptyState ==
    [active_events |-> EmptyDict,
     event_pipeline |-> EmptyDict,
     pending_validations |-> EmptyDict,
     consensus_results |-> EmptyDict,
     active_daos |-> EmptyDict,
     parametric_vault_balance |-> InitialVault,
     event_log |-> EmptyDict]

\* the state after the scores of a sequence were fed in its order to a fresh system
RECURSIVE FeedAll(_)
FeedAll(scores) ==
    IF scores = <<>> THEN EmptyState
    ELSE ProcessValidationResult(FeedAll(SubSeq(scores, 1, Len(scores) - 1)),
                                 scores[Len(scores)])

Reordered(scores, p) == [i \in 1..Len(scores) |-> scores[p[i]]]

SumStake(validations, indices) ==
    LET RECURSIVE Sum(_)
        Sum(I) == IF I = {} THEN 0
                  ELSE LET i == CHOOSE x \in I : TRUE
                       IN  validations[i].stake_amount + Sum(I \ {i})
    IN  Sum(indices)

SumWeight(validations, indices) ==
    LET RECURSIVE Sum(_)
        Sum(I) == IF I = {} THEN 0
                  ELSE LET i == CHOOSE x \in I : TRUE
                       IN  (validations[i].stake_amount \div StakeUnit(validations))
                               * validations[i].confidence
                           + Sum(I \ {i})
    IN  Sum(indices)

Yes(validations) == {i \in 1..Len(validations) : validations[i].prediction}
No(validations) == {i \in 1..Len(validations) : ~validations[i].prediction}

---------------------------------------------------------------------------
(* C1: for every event_id at most one Event DAO is created, and the vault  *)
(* is debited by the fixed allocation at most once per event that has a    *)
(* DAO; a score arriving after the decision creates no second DAO.         *)
C1_AtMostOneDao ==
    /\ \A e \in DOMAIN event_log :
           Cardinality(Lines(event_log[e], {"dao_created"})) <= 1
    /\ InitialVault - parametric_vault_balance
           <= InitialFunding * Cardinality(DOMAIN active_daos)

(* C2: the decision of an event is computed once: a stored consensus       *)
(* result is never replaced or changed by a later score.                   *)
C2_DecisionFinal ==
    [][\A e \in DOMAIN consensus_results :
           /\ e \in DOMAIN consensus_results'
           /\ consensus_results'[e] = consensus_results[e]]_vars

(* C3: the reward/penalty round of an event runs once: no score of the     *)
(* event is rewarded or penalised more than once.                          *)
C3_RewardRoundOnce ==
    \A e \in DOMAIN event_log :
        Cardinality(Lines(event_log[e], {"reward", "penalty"}))
            <= Len(pending_validations[e])

C8_NoDecisionBelowQuorum ==
    /\ DOMAIN consensus_results \subseteq DOMAIN pending_validations
    /\ \A e \in DOMAIN pending_validations :
           Len(pending_validations[e]) < 3 =>
               /\ e \notin DOMAIN consensus_results
               /\ DaoId(e) \notin DOMAIN active_daos
               /\ LogOf(e) = <<>>
               /\ e \in DOMAIN event_pipeline =>
                      event_pipeline[e] \in {"parsing_complete", "validation_started"}

\* an event that holds two scores
C8_Witness ==
    \E e \in DOMAIN pending_validations : Len(pending_validations[e]) = 2

(* C9: the score list of an event holds at most one score per validator.   *)
C9_OneScorePerValidator ==
    \A e \in DOMAIN pending_validations :
        \A i, j \in 1..Len(pending_validations[e]) :
            i # j => pending_validations[e][i].validator_id
                         # pending_validations[e][j].validator_id

(* C10: a step creates an Event DAO or debits the vault only for an event  *)
(* whose decision in that step is accept with confidence >= 0.8.           *)
C10_DaoOnlyWhenConfirmed ==
    [][(active_daos' # active_daos
        \/ parametric_vault_balance' # parametric_vault_balance
        \/ \E e \in DOMAIN event_log' :
               Lines(event_log'[e], {"dao_created"}) # Lines(LogOf(e), {"dao_created"}))
       => \E e \in DOMAIN consensus_results' :
              /\ e \in DOMAIN pending_validations'
              /\ pending_validations'[e] # Collected(pending_validations, [event_id |-> e])
              /\ consensus_results'[e].decision
              /\ consensus_results'[e].confidence.num
                    >= ((8 * ConfOne) \div 10) * consensus_results'[e].confidence.den
              /\ DaoId(e) \in DOMAIN active_daos'
              /\ parametric_vault_balance' = parametric_vault_balance - InitialFunding]_vars

\* an event with a DAO, paid for by the vault
C10_Witness ==
    /\ \E e \in DOMAIN consensus_results : DaoId(e) \in DOMAIN active_daos
    /\ parametric_vault_balance < InitialVault

(* C6: when a step scores and decides an event, each validator that       *)
(* scored it in that step then holds balance_before - stake + 1.2 x stake  *)
(* if its prediction equals the decision, and balance_before - stake if    *)
(* not, balance_before being its balance before the step.                  *)
C6_RewardedBalance ==
    [][\A e \in DOMAIN consensus_results' :
           (e \in DOMAIN pending_validations'
            /\ pending_validations'[e] # Collected(pending_validations, [event_id |-> e]))
           => \A v \in DOMAIN last_validation' :
                  (last_validation'[v].event_id = e
                   /\ validation_history'[v] # validation_history[v])
                  => LET stake == last_validation'[v].stake_amount
                         correct == last_validation'[v].prediction
                                        = consensus_results'[e].decision
                     IN  10 * (stake_balance'[v] - (stake_balance[v] - stake))
                             = (IF correct THEN 12 * stake ELSE 0)]_vars

(* C7: every validator balance is >= 0, and the stake a score carries is   *)
(* no larger than the balance the validator held when it scored.           *)
C7_StakeWithinBalance ==
    /\ [](\A v \in Validators : stake_balance[v] >= 0)
    /\ [][\A v \in DOMAIN last_validation' :
              (\/ v \notin DOMAIN last_validation
               \/ last_validation'[v] # last_validation[v]
               \/ validation_history'[v] # validation_history[v]
               \/ stake_balance'[v] # stake_balance[v])
              => /\ last_validation'[v].stake_amount <= stake_balance[v]
                 /\ stake_balance'[v] = stake_balance[v] - last_validation'[v].stake_amount]_vars

\* a score whose stake was cut down to half of the balance
C7_Witness ==
    \E v \in DOMAIN last_validation :
        /\ last_validation[v].stake_amount = stake_balance[v]
        /\ validation_history[v] >= 10

(* C11: when an event is decided accept with confidence >= 0.8 while the   *)
(* vault holds less than the fixed allocation, the step creates no DAO,    *)
(* leaves the vault and the DAOs as they were, logs the shortfall, and     *)
(* leaves the event in consensus_reached, not in false_alarm.              *)
C11_FundingFailsClosed ==
    [][\A e \in DOMAIN consensus_results' :
           (/\ e \in DOMAIN pending_validations'
            /\ pending_validations'[e] # Collected(pending_validations, [event_id |-> e])
            /\ consensus_results'[e].decision
            /\ consensus_results'[e].confidence.num
                   >= ((8 * ConfOne) \div 10) * consensus_results'[e].confidence.den
            /\ parametric_vault_balance < InitialFunding)
           => /\ active_daos' = active_daos
              /\ parametric_vault_balance' = parametric_vault_balance
              /\ Lines(event_log'[e], {"dao_created"}) = Lines(LogOf(e), {"dao_created"})
              /\ event_log'[e][Len(event_log'[e])].line = "insufficient_vault"
              /\ event_pipeline'[e] = "consensus_reached"]_vars

\* an accepted event left without a DAO because the vault was spent
C11_Witness ==
    \E e \in DOMAIN consensus_results :
        /\ consensus_results[e].decision
        /\ DaoId(e) \notin DOMAIN active_daos
        /\ Lines(LogOf(e), {"insufficient_vault"}) # {}
        /\ event_pipeline[e] = "consensus_reached"
        /\ parametric_vault_balance < InitialFunding

(* C12: a validator that raises abstains: every score a validator produced  *)
(* for an event in a call of process_raw_data has reached the consensus    *)
(* manager by the end of the call.                                         *)
C12_OtherScoresReachConsensus ==
    \A v \in DOMAIN last_validation :
        LET r == last_validation[v]
        IN  /\ r.event_id \in DOMAIN pending_validations
            /\ \E i \in 1..Len(pending_validations[r.event_id]) :
                   pending_validations[r.event_id][i] = r

\* the time bucket of a clock reading: a bucket spans two consecutive readings
TimeBucket(timestamp) == timestamp \div 2

(* C13: two signals of the same disaster type, the same location and the   *)
(* same time bucket get the same event_id, so that their scores are        *)
(* collected in one list of the consensus manager.                         *)
C13_SameEventSameId ==
    \A e1, e2 \in DOMAIN active_events :
        (/\ active_events[e1].disaster_type = active_events[e2].disaster_type
         /\ active_events[e1].location = active_events[e2].location
         /\ TimeBucket(active_events[e1].timestamp)
                = TimeBucket(active_events[e2].timestamp))
        => e1 = e2

\* the event_data an event_id of the payouts stands for
EventDataOf(event_id) == CHOOSE d \in PayoutEventData : d.event_id = event_id

\* the disaster kind a policy is written for
PolicyKind(policy_id) ==
    CASE policy_id = "earthquake_emergency" -> "earthquake"
      [] policy_id = "flood_critical" -> "flood"
      [] policy_id = "fire_major" -> "fire"

(* C14: payout_history holds at most one PayoutRecord per event_id; every   *)
(* record is one debit of the vault, so an event is debited at most once.  *)
C14_OnePayoutPerEvent ==
    \A i, j \in 1..Len(payout_history) :
        payout_history[i].event_id = payout_history[j].event_id => i = j

(* C15: auto_payout pays under a policy only to an event of the disaster   *)
(* kind the policy covers.                                                 *)
C15_PayoutOfOwnKind ==
    \A i \in 1..Len(payout_history) :
        PolicyKind(payout_history[i].policy_id)
            = EventDataOf(payout_history[i].event_id).disaster_type

(* C16: a call of auto_payout that pays appends one record, whose policy   *)
(* holds of the event and the consensus and is preceded in the table by no *)
(* policy that holds of them, and debits the payout of that policy only.   *)
C16_FirstMatchWins ==
    [][\A c \in PayoutConsensus, d \in PayoutEventData :
           (AutoPayout(c, d) /\ payout_history' # payout_history)
           => \E i \in 1..Len(Policies) :
                  /\ Matches(Policies[i], d, c)
                  /\ \A j \in 1..(i - 1) : ~Matches(Policies[j], d, c)
                  /\ payout_history' =
                         Append(payout_history,
                                PayoutRecord(d.event_id, Policies[i].policy_id,
                                             Policies[i].payout))
                  /\ vault_balance' = vault_balance - Policies[i].payout]_vars

\* an event that meets the conditions of earthquake_emergency and of
\* flood_critical, paid under earthquake_emergency
C16_Witness ==
    \E i \in 1..Len(payout_history) :
        LET d == EventDataOf(payout_history[i].event_id)
        IN  /\ payout_history[i].policy_id = "earthquake_emergency"
            /\ d.severity >= 4
            /\ d.metadata.magnitude >= 60
            /\ payout_history[i].amount = 2000000

(* C17: a decision computed from scores that all carry stake 0 is reject,   *)
(* with positive_ratio 0 and confidence 0; the computation completes (the  *)
(* result is stored and logged) without dividing by the zero sums.         *)
C17_ZeroStakeRejects ==
    \A e \in DOMAIN pending_validations :
        (/\ Len(pending_validations[e]) >= MinValidators
         /\ \A i \in 1..Len(pending_validations[e]) :
                pending_validations[e][i].stake_amount = 0)
        => /\ e \in DOMAIN consensus_results
           /\ ~consensus_results[e].decision
           /\ consensus_results[e].positive_ratio = Zero
           /\ consensus_results[e].confidence = Zero
           /\ Decisions(LogOf(e)) # <<>>
           /\ \A i \in 1..Len(Decisions(LogOf(e))) : ~Decisions(LogOf(e))[i]
           /\ DaoId(e) \notin DOMAIN active_daos

\* an event decided on three scores of stake 0
C17_Witness ==
    \E e \in DOMAIN consensus_results :
        /\ Len(pending_validations[e]) >= MinValidators
        /\ \A i \in 1..Len(pending_validations[e]) :
               pending_validations[e][i].stake_amount = 0

(* C18: a decision computed from scores whose positive_ratio is exactly    *)
(* 0.7 is accept, and one computed from scores whose positive_ratio is     *)
(* below 0.7 is reject.                                                    *)
C18_ThresholdInclusive ==
    \A e \in DOMAIN consensus_results :
        LET vs == pending_validations[e]
            yes == SumStake(vs, Yes(vs))
            total == yes + SumStake(vs, No(vs))
        IN  /\ (total > 0 /\ 10 * yes = 7 * total) => consensus_results[e].decision
            /\ (total > 0 /\ 10 * yes < 7 * total) => ~consensus_results[e].decision

\* three scores with positive_ratio 700 / 1000, accepted
C18_Witness ==
    \E e \in DOMAIN consensus_results :
        LET vs == pending_validations[e]
            yes == SumStake(vs, Yes(vs))
            total == yes + SumStake(vs, No(vs))
        IN  /\ Len(vs) = 3
            /\ total > 0
            /\ 10 * yes = 7 * total
            /\ consensus_results[e].decision

(* C19: the stake of a scoring is the smaller of half the balance the       *)
(* validator holds and 0.1 x initial stake x event confidence x severity/5,*)
(* and the scoring takes exactly that stake from the balance; so it takes  *)
(* no more than half of the balance.                                       *)
C19_StakeSizing ==
    [][\A v \in Validators, event \in ScoringEvents, noise \in Noise :
           ValidatorProcess(v, event, noise)
           => LET stake == last_validation'[v].stake_amount
                  sized == InitialStake(v) * event.confidence_score * event.severity
              IN  /\ 2 * stake <= stake_balance[v]
                  /\ 50 * ConfOne * stake <= sized
                  /\ 2 * stake = stake_balance[v] \/ 50 * ConfOne * stake = sized
                  /\ stake_balance'[v] = stake_balance[v] - stake]_vars

\* a second scoring whose stake is the sized amount, below half of the balance
C19_Witness ==
    \E v \in DOMAIN last_validation :
        /\ validation_history[v] >= 2
        /\ last_validation[v].stake_amount > 0
        /\ last_validation[v].stake_amount < stake_balance[v]

(* C20: in every call of process_raw_data that parses an event the         *)
(* multimodal validator scores that event, the earthquake validator scores *)
(* only if the event is an earthquake, and the social validator scores     *)
(* only if the data sources of the event contain social_media.             *)
C20_Routing ==
    [][/\ validation_history'["multimodal_validator"]
              = validation_history["multimodal_validator"] + 1
       /\ \A v \in Validators :
              validation_history'[v] # validation_history[v]
              => LET e == last_validation'[v].event_id
                 IN  /\ e \in DOMAIN active_events'
                     /\ e[3] = now'
                     /\ last_validation'["multimodal_validator"].event_id = e
                     /\ v = "earthquake_validator"
                            => active_events'[e].disaster_type = "earthquake"
                     /\ v = "social_validator"
                            => "social_media" \in active_events'[e].data_sources]_vars

\* a flood reported by social media, scored by the social validator and not
\* by the earthquake validator
C20_Witness ==
    /\ "social_validator" \in DOMAIN last_validation
    /\ validation_history["social_validator"] > 0
    /\ validation_history["earthquake_validator"] = 0
    /\ active_events[last_validation["social_validator"].event_id].disaster_type = "flood"

---------------------------------------------------------------------------
(***************************************************************************)
(* The validator agents of the uagents services                            *)
(* (3-backend-ai-agents/agents/validator_agent.py and                      *)
(*  ai_agent/agents/chatbotrepair/asi_one.py): perform_ai_validation,      *)
(* send_to_action_agent and the handlers that call it.                     *)
(* A magnitude is in tenths.  One handler run is one action; what the      *)
(* network does to each ctx.send of the run is the input send_raises.      *)
(***************************************************************************)
MaxHandlerRuns == 2

\* range(3)
SendAttempts == 3

WebTriggerRequests ==
    { [source |-> "web", magnitude |-> m, location |-> "Sumatra"] : m \in {60, 70, 80} }

\* validator_agent.py: "Critical" from 7.5, "High" from 6.5, else "Low"
PerformAiValidation(data) ==
    [event_type |-> "Earthquake",
     severity |-> IF data.magnitude >= 75 THEN "Critical"
                  ELSE IF data.magnitude >= 65 THEN "High" ELSE "Low",
     location |-> data.location,
     magnitude |-> data.magnitude,
     confidence_score |-> (95 * ConfOne) \div 100]

\* asi_one.py: the same thresholds, "Medium" below 6.5
PerformAiValidationAsi(data) ==
    [event_type |-> "Earthquake",
     severity |-> IF data.magnitude >= 75 THEN "Critical"
                  ELSE IF data.magnitude >= 65 THEN "High" ELSE "Medium",
     location |-> data.location,
     magnitude |-> data.magnitude,
     confidence_score |-> (95 * ConfOne) \div 100]

\* what the network does to the attempts of one run: send_raises[i] says
\* whether the i-th ctx.send raises
SendOutcomes == [1..SendAttempts -> BOOLEAN]

\* The retry loop from the attempt numbered `attempt` on.  A ctx.send that
\* returns ends the loop with True.  One that raises is caught, and the
\* handler of the exception awaits the delay before the next attempt; when
\* that await itself raises (delay_raises), the exception leaves the loop.
\* The value is the number of ctx.send calls made and how the call ended.
RECURSIVE SendLoop(_, _, _)
SendLoop(attempt, send_raises, delay_raises) ==
    IF attempt > SendAttempts THEN [sends |-> 0, ret |-> "False"]
    ELSE IF ~send_raises[attempt] THEN [sends |-> 1, ret |-> "True"]
    ELSE IF delay_raises THEN [sends |-> 1, ret |-> "raised"]
    ELSE LET rest == SendLoop(attempt + 1, send_raises, delay_raises)
         IN  [sends |-> 1 + rest.sends, ret |-> rest.ret]

\* validator_agent.py: the delay is `await ctx.sleep(2.0)`, a call on the
\* uagents Context.  Context is the library's class; it has no method sleep,
\* so the attribute lookup raises AttributeError inside the except clause.
\* ctx_has_sleep is FALSE for that library and TRUE for a Context that
\* provides the method; both are admitted.
SendToActionAgent(send_raises, ctx_has_sleep) ==
    SendLoop(1, send_raises, ~ctx_has_sleep)

\* asi_one.py: no attempt without ACTION_AGENT_ADDRESS; the delay is
\* asyncio.sleep, which returns
SendToActionAgentAsi(address_set, send_raises) ==
    IF ~address_set THEN [sends |-> 0, ret |-> "False"]
    ELSE SendLoop(1, send_raises, FALSE)

\* one handler run, as the log keeps it
HandlerRun(handler, event, sent, response) ==
    [handler |-> handler, event |-> event, sends |-> sent.sends,
     ret |-> sent.ret, response |-> response]

Deliver(event, sent) ==
    IF sent.ret = "True" THEN Append(action_inbox, event) ELSE action_inbox

\* validator_agent.py, on_message(RawEarthquakeData): validate, forward,
\* no reply
HandleOracleMessage(msg, send_raises, ctx_has_sleep) ==
    LET event == PerformAiValidation(msg)
        sent == SendToActionAgent(send_raises, ctx_has_sleep)
    IN  /\ Len(handler_log) < MaxHandlerRuns
        /\ action_inbox' = Deliver(event, sent)
        /\ handler_log' = Append(handler_log,
               HandlerRun("handle_oracle_message", event, sent,
                          IF sent.ret = "raised" THEN "raised" ELSE "none"))

\* validator_agent.py, POST /verify_disaster: the response tells whether
\* the event was forwarded
HandleLegacySignal(request, send_raises, ctx_has_sleep) ==
    LET event == PerformAiValidation(request)
        sent == SendToActionAgent(send_raises, ctx_has_sleep)
    IN  /\ Len(handler_log) < MaxHandlerRuns
        /\ action_inbox' = Deliver(event, sent)
        /\ handler_log' = Append(handler_log,
               HandlerRun("handle_legacy_signal", event, sent,
                          CASE sent.ret = "True" -> "success"
                            [] sent.ret = "False" -> "error"
                            [] OTHER -> "raised"))

\* ACTION_AGENT_ADDRESS is read once from the environment: every run of the
\* merged agent sees the value its first run saw
AddressSeen ==
    { r.address_set : r \in
        { handler_log[i] : i \in { j \in 1..Len(handler_log) :
                                     handler_log[j].handler = "asi_one.handle_oracle_message" } } }

\* asi_one.py, on_message(RawEarthquakeData)
HandleOracleMessageAsi(msg, address_set, send_raises) ==
    LET event == PerformAiValidationAsi(msg)
        sent == SendToActionAgentAsi(address_set, send_raises)
    IN  /\ Len(handler_log) < MaxHandlerRuns
        /\ AddressSeen \subseteq {address_set}
        /\ action_inbox' = Deliver(event, sent)
        /\ handler_log' = Append(handler_log,
               [handler |-> "asi_one.handle_oracle_message", event |-> event,
                sends |-> sent.sends, ret |-> sent.ret, response |-> "none",
                address_set |-> address_set])

NextSend ==
    \/ \E msg \in WebTriggerRequests, send_raises \in SendOutcomes, ctx_has_sleep \in BOOLEAN :
          /\ HandleOracleMessage(msg, send_raises, ctx_has_sleep)
          /\ UNCHANGED <<now, active_events, event_pipeline, stake_balance,
                         validation_history, last_validation, pending_validations,
                         consensus_results, active_daos, parametric_vault_balance,
                         event_log, vault_balance, payout_history,
                         monitoring_active, monitoring_tasks, asyncio_tasks, polls,
                         last_call, oracle_agent, service_vars>>
    \/ \E request \in WebTriggerRequests, send_raises \in SendOutcomes, ctx_has_sleep \in BOOLEAN :
          /\ HandleLegacySignal(request, send_raises, ctx_has_sleep)
          /\ UNCHANGED <<now, active_events, event_pipeline, stake_balance,
                         validation_history, last_validation, pending_validations,
                         consensus_results, active_daos, parametric_vault_balance,
                         event_log, vault_balance, payout_history,
                         monitoring_active, monitoring_tasks, asyncio_tasks, polls,
                         last_call, oracle_agent, service_vars>>
    \/ \E msg \in WebTriggerRequests, address_set \in BOOLEAN, send_raises \in SendOutcomes :
          /\ HandleOracleMessageAsi(msg, address_set, send_raises)
          /\ UNCHANGED <<now, active_events, event_pipeline, stake_balance,
                         validation_history, last_validation, pending_validations,
                         consensus_results, active_daos, parametric_vault_balance,
                         event_log, vault_balance, payout_history,
                         monitoring_active, monitoring_tasks, asyncio_tasks, polls,
                         last_call, oracle_agent, service_vars>>

SpecSend == Init /\ [][NextSend]_vars

\* C21: a run of send_to_action_agent makes at most 3 send attempts, stops at
\* the first one that succeeds and then returns True, returns False without
\* raising after 3 failed ones; the handler that called it completes and
\* answers its caller; an event that was not delivered is not sent later.
C21_BoundedRetryNoRaise ==
    /\ \A i \in 1..Len(handler_log) :
          LET r == handler_log[i]
          IN  /\ r.sends <= SendAttempts
              /\ r.ret \in {"True", "False"}
              /\ r.ret = "False" => r.sends \in {0, SendAttempts}
              /\ r.response # "raised"
              /\ r.handler = "handle_legacy_signal" =>
                    r.response = (IF r.ret = "True" THEN "success" ELSE "error")
    /\ Len(action_inbox) =
          Cardinality({ i \in 1..Len(handler_log) : handler_log[i].ret = "True" })

---------------------------------------------------------------------------
(***************************************************************************)
(* DecentralizedOracleNetwork (oracle_network.py): one asyncio task per    *)
(* data source runs _monitor_source.  asyncio is cooperative: a task runs  *)
(* from one await that suspends it to the next, and that stretch is one    *)
(* action.  A task suspends in the HTTP fetch, in the orchestrator         *)
(* callback and in asyncio.sleep(interval); the internal source is fetched *)
(* without suspending.  What a fetch returns and whether the callback      *)
(* raises are inputs.  Magnitudes are in tenths.                           *)
(***************************************************************************)
MaxPolls == 2
MaxStarts == 1

\* _setup_data_sources: the five sources, all active
DataSources ==
    {"bmkg_autogempa", "usgs_earthquake", "petabencana_flood", "nasa_firms",
     "social_media_monitor"}

Internal(source) == source = "social_media_monitor"

\* the body of a url without "json" in it, wrapped by _fetch_data
RawText(source, words, row) ==
    [raw_text |-> [words |-> words, row |-> row], source |-> source]

\* What _fetch_data can return, per source; <<>> is None (timeout, a status
\* other than 200, any exception of the request) and <<d>> is the data d.
FetchResults(source) ==
    CASE source = "bmkg_autogempa" ->
            { <<>>,
              << [Infogempa |-> [gempa |-> [Magnitude |-> "3.9"]]] >>,
              << [Infogempa |-> [gempa |-> [Magnitude |-> "4.0"]]] >>,
              << [Infogempa |-> [gempa |-> [Magnitude |-> "abc"]]] >>,
              << [Infogempa |-> [gempa |-> [Wilayah |-> "Jawa"]]] >> }
      [] source = "usgs_earthquake" ->
            { <<>>, << [features |-> <<[lat |-> -6, lon |-> 107]>>] >> }
      [] source = "petabencana_flood" ->
            { <<>>, << RawText(source, {"flood"}, "none") >>,
                    << RawText(source, {}, "none") >> }
      [] source = "nasa_firms" ->
            { <<>>, << RawText(source, {"confidence", "8"}, "indonesia") >>,
                    << RawText(source, {"confidence", "8"}, "elsewhere") >>,
                    << RawText(source, {"confidence", "8"}, "malformed") >>,
                    << RawText(source, {"confidence"}, "indonesia") >> }
      [] OTHER -> { <<>> }

\* _fetch_internal_data
FetchInternalData(source) ==
    IF source = "social_media_monitor"
    THEN << [platform |-> "twitter", sentiment_spike |-> TRUE, post_count |-> 150] >>
    ELSE <<>>

\* float(text): the magnitudes the feed was given here, ValueError otherwise
FloatParses(text) == text \in {"3.9", "4.0"}
Float(text) == CASE text = "3.9" -> 39 [] text = "4.0" -> 40

\* the words of str(data): those of the body and those the name of the
\* source puts there when the body was wrapped
Words(data) ==
    IF "raw_text" \in DOMAIN data
    THEN data.raw_text.words \cup
         (IF data.source = "petabencana_flood" THEN {"flood"} ELSE {})
    ELSE DOMAIN data

HasMagnitude(data, source) ==
    /\ source = "bmkg_autogempa"
    /\ "Infogempa" \in Words(data)
    /\ "Infogempa" \in DOMAIN data
    /\ "Magnitude" \in DOMAIN data.Infogempa.gempa

\* _detect_anomaly raises: float() of a magnitude that is no number
DetectAnomalyRaises(data, source) ==
    HasMagnitude(data, source) /\ ~FloatParses(data.Infogempa.gempa.Magnitude)

\* _detect_anomaly, where it does not raise
DetectAnomaly(data, source) ==
    IF HasMagnitude(data, source)
    THEN Float(data.Infogempa.gempa.Magnitude) >= 40
    ELSE CASE source = "petabencana_flood" -> "flood" \in Words(data)
           [] source = "nasa_firms" ->
                 "confidence" \in Words(data) /\ ({"8", "9"} \cap Words(data) # {})
           [] source = "social_media_monitor" ->
                 data.sentiment_spike \/ data.post_count > 100
           [] OTHER -> FALSE

\* config["parser"](data): <<>> is None
Parser(source, data) ==
    CASE source = "bmkg_autogempa" ->
            IF "Infogempa" \in DOMAIN data
            THEN << [source_type |-> "bmkg_earthquake", gempa |-> data.Infogempa.gempa] >>
            ELSE <<>>
      [] source = "usgs_earthquake" ->
            IF "features" \in DOMAIN data /\ Len(data.features) > 0
            THEN << [source_type |-> "usgs_earthquake", coordinates |-> data.features[1]] >>
            ELSE <<>>
      [] source = "petabencana_flood" ->
            IF "result" \in DOMAIN data
            THEN << [source_type |-> "petabencana_flood", flood_data |-> data.result] >>
            ELSE <<>>
      [] source = "nasa_firms" ->
            IF "raw_text" \in DOMAIN data /\ data.raw_text.row = "indonesia"
            THEN << [source_type |-> "nasa_firms_fire"] >>
            ELSE <<>>
      [] source = "social_media_monitor" ->
            IF data.sentiment_spike \/ data.post_count > 100
            THEN << [source_type |-> "social_media", platform |-> data.platform,
                     signal_strength |-> data.post_count] >>
            ELSE <<>>

\* the condition of line 99 with everything fetched
SignalsAlways(fetched, source) == fetched # <<>>

\* the condition of line 99: `data and self._detect_anomaly(data, source_name)`
Signals(fetched, source) ==
    fetched # <<>> /\ DetectAnomaly(fetched[1], source)

\* a task as create_task leaves it: not yet run
NewTask(source) ==
    [source |-> source, pc |-> "created", must_cancel |-> FALSE,
     fetches |-> 0, fetched |-> <<>>, calls |-> 0, errors |-> 0]

\* an exception of the cycle that the except clause of line 108 logs and
\* that ends the task instead
CycleErrorEndsTask(task) ==
    [task EXCEPT !.errors = @ + 1, !.pc = "failed"]

\* lines 108-112: the exception is logged and the task goes on to the sleep
CycleError(task) ==
    [task EXCEPT !.errors = @ + 1, !.pc = "sleep"]

\* lines 99-112, from the return of _fetch_data to the next await
AfterFetch(task, fetched) ==
    LET got == [task EXCEPT !.fetches = @ + 1, !.fetched = fetched]
    IN  IF fetched # <<>> /\ DetectAnomalyRaises(fetched[1], task.source)
        THEN CycleError(got)
        ELSE IF Signals(fetched, task.source) /\ Parser(task.source, fetched[1]) # <<>>
             THEN [got EXCEPT !.calls = @ + 1, !.pc = "callback"]
             ELSE [got EXCEPT !.pc = "sleep"]

\* task.cancel() that leaves the task as it is
CancelIgnored(task) == task

\* task.cancel(): the task is marked, and CancelledError is thrown into it
\* where it is suspended the next time it would run.  What the task holds of
\* its cycle is never read again and is dropped here.
Cancel(task) ==
    [NewTask(task.source) EXCEPT !.pc = task.pc, !.must_cancel = TRUE]

\* The tasks are named by their source and a number for the start that
\* created them; a task that has ended is no longer kept.  Generation is the
\* latest start that still has a task: a start while tasks of MaxStarts
\* earlier starts are still to end is left out.
Generations == { t[2] : t \in DOMAIN asyncio_tasks }
Generation == IF Generations = {} THEN 0
              ELSE CHOOSE g \in Generations : \A h \in Generations : h <= g

Without(t) == [u \in (DOMAIN asyncio_tasks) \ {t} |-> asyncio_tasks[u]]

\* start_monitoring
StartMonitoring ==
    /\ Generation < MaxStarts
    /\ IF monitoring_active
       THEN UNCHANGED <<monitoring_active, monitoring_tasks, asyncio_tasks>>
       ELSE /\ monitoring_active' = TRUE
            /\ asyncio_tasks' =
                  [t \in (DOMAIN asyncio_tasks) \cup
                         { <<s, Generation + 1>> : s \in DataSources } |->
                            IF t \in DOMAIN asyncio_tasks THEN asyncio_tasks[t] ELSE NewTask(t[1])]
            /\ monitoring_tasks' = [s \in DataSources |-> <<s, Generation + 1>>]
    /\ UNCHANGED polls

\* stop_monitoring
StopMonitoring ==
    /\ monitoring_active' = FALSE
    /\ asyncio_tasks' = [t \in DOMAIN asyncio_tasks |->
                    IF \E s \in DOMAIN monitoring_tasks : monitoring_tasks[s] = t
                    THEN Cancel(asyncio_tasks[t]) ELSE asyncio_tasks[t]]
    /\ monitoring_tasks' = EmptyDict
    /\ UNCHANGED polls

\* CancelledError arrives in a task that was asked to cancel; no except
\* clause of the loop catches it (it is no Exception), the task ends
Cancelled(t) ==
    /\ asyncio_tasks[t].must_cancel
    /\ asyncio_tasks' = Without(t)
    /\ UNCHANGED <<monitoring_active, monitoring_tasks, polls>>

\* line 94: the task starts, or wakes from the sleep, and tests the loop
\* condition; a cycle begins with the fetch
BeginCycle(t) ==
    LET task == asyncio_tasks[t]
        begun == [task EXCEPT !.fetches = 0, !.fetched = <<>>,
                              !.calls = 0, !.errors = 0, !.pc = "fetch"]
    IN  /\ task.pc \in {"created", "sleep"} /\ ~task.must_cancel
        /\ IF ~monitoring_active
           THEN /\ asyncio_tasks' = Without(t)
                /\ UNCHANGED polls
           ELSE /\ polls < MaxPolls
                /\ polls' = polls + 1
                /\ asyncio_tasks' = [asyncio_tasks EXCEPT ![t] =
                                IF Internal(task.source)
                                THEN AfterFetch(begun, FetchInternalData(task.source))
                                ELSE begun]
        /\ UNCHANGED <<monitoring_active, monitoring_tasks>>

\* _fetch_data returns to the task
FetchReturns(t, fetched) ==
    /\ asyncio_tasks[t].pc = "fetch" /\ ~asyncio_tasks[t].must_cancel
    /\ fetched \in FetchResults(asyncio_tasks[t].source)
    /\ asyncio_tasks' = [asyncio_tasks EXCEPT ![t] = AfterFetch(asyncio_tasks[t], fetched)]
    /\ UNCHANGED <<monitoring_active, monitoring_tasks, polls>>

\* the orchestrator callback returns to the task, or raises
CallbackReturns(t, raises) ==
    /\ asyncio_tasks[t].pc = "callback" /\ ~asyncio_tasks[t].must_cancel
    /\ asyncio_tasks' = [asyncio_tasks EXCEPT ![t] =
                    IF raises THEN CycleError(asyncio_tasks[t])
                    ELSE [asyncio_tasks[t] EXCEPT !.pc = "sleep"]]
    /\ UNCHANGED <<monitoring_active, monitoring_tasks, polls>>

pipeline_vars ==
    <<now, active_events, event_pipeline, stake_balance, validation_history,
      last_validation, pending_validations, consensus_results, active_daos,
      parametric_vault_balance, event_log, vault_balance, payout_history,
      action_inbox, handler_log, last_call, oracle_agent, service_vars>>

NextOracle ==
    \/ StartMonitoring /\ UNCHANGED pipeline_vars
    \/ StopMonitoring /\ UNCHANGED pipeline_vars
    \/ \E t \in DOMAIN asyncio_tasks : Cancelled(t) /\ UNCHANGED pipeline_vars
    \/ \E t \in DOMAIN asyncio_tasks : BeginCycle(t) /\ UNCHANGED pipeline_vars
    \/ \E t \in DOMAIN asyncio_tasks :
          \E fetched \in FetchResults(asyncio_tasks[t].source) :
             FetchReturns(t, fetched) /\ UNCHANGED pipeline_vars
    \/ \E t \in DOMAIN asyncio_tasks, raises \in BOOLEAN :
          CallbackReturns(t, raises) /\ UNCHANGED pipeline_vars

SpecOracle == Init /\ [][NextOracle]_vars

\* C22: in a polling cycle of a source the orchestrator callback is invoked
\* at most once, and not at all when nothing was fetched or the anomaly
\* predicate of the source is false for what was fetched, as for a BMKG
\* magnitude below 4.0.
C22_AtMostOneSignalPerCycle ==
    \A t \in DOMAIN asyncio_tasks :
        LET task == asyncio_tasks[t]
        IN  /\ task.calls <= 1
            /\ task.fetches <= 1
            /\ task.calls = 1 =>
                  /\ task.fetched # <<>>
                  /\ ~DetectAnomalyRaises(task.fetched[1], task.source)
                  /\ DetectAnomaly(task.fetched[1], task.source)
            /\ (task.source = "bmkg_autogempa" /\ task.fetched # <<>>
                  /\ HasMagnitude(task.fetched[1], task.source)
                  /\ task.fetched[1].Infogempa.gempa.Magnitude = "3.9") => task.calls = 0

\* a BMKG cycle that fetched magnitude 3.9 and went to sleep without a call,
\* and another task that did invoke the callback
C22_Witness ==
    /\ \E t \in DOMAIN asyncio_tasks :
          /\ asyncio_tasks[t].source = "bmkg_autogempa" /\ asyncio_tasks[t].pc = "sleep"
          /\ asyncio_tasks[t].fetched = << [Infogempa |-> [gempa |-> [Magnitude |-> "3.9"]]] >>
          /\ asyncio_tasks[t].calls = 0
    /\ \E t \in DOMAIN asyncio_tasks : asyncio_tasks[t].calls = 1

\* the task t sleeps after a cycle that logged an error
SleepsAfterError(t) ==
    IF t \in DOMAIN asyncio_tasks
    THEN asyncio_tasks[t].pc = "sleep" /\ asyncio_tasks[t].errors = 1
    ELSE FALSE

\* the step wakes the task t from its sleep into another polling cycle
BeginsNextCycle(t) ==
    /\ polls' = polls + 1
    /\ monitoring_active
    /\ asyncio_tasks'[t].pc \in {"fetch", "callback", "sleep"}
    /\ asyncio_tasks'[t].errors = 0
    /\ asyncio_tasks'[t].fetches = (IF asyncio_tasks'[t].pc = "fetch" THEN 0 ELSE 1)

\* every task is in its loop, and no cycle fetched or failed twice
TasksInLoop ==
    \A t \in DOMAIN asyncio_tasks :
        IF asyncio_tasks[t].pc \in {"created", "fetch", "callback", "sleep"}
        THEN asyncio_tasks[t].fetches <= 1 /\ asyncio_tasks[t].errors <= 1
        ELSE FALSE

\* while monitoring is active every source has its task, not cancelled
EverySourceMonitored ==
    IF monitoring_active
    THEN \A s \in DataSources :
            IF s \in DOMAIN monitoring_tasks
            THEN IF monitoring_tasks[s] \in DOMAIN asyncio_tasks
                 THEN ~asyncio_tasks[monitoring_tasks[s]].must_cancel
                 ELSE FALSE
            ELSE FALSE
    ELSE TRUE

\* the step is the end of a fetch that gave nothing, or logs an error, in t
FailsIn(t) ==
    IF t \in DOMAIN asyncio_tasks'
    THEN \/ asyncio_tasks'[t].errors > asyncio_tasks[t].errors
         \/ /\ asyncio_tasks[t].pc = "fetch"
            /\ asyncio_tasks'[t].fetches = 1
            /\ asyncio_tasks'[t].fetched = <<>>
    ELSE FALSE

\* C23: an error of a polling cycle (a fetch that fails and gives nothing, an
\* exception of the anomaly test, a callback that raises) stays in that
\* cycle: the task does not end and goes to its sleep, nothing is fetched a
\* second time in the cycle, no other task changes; and the next thing a
\* task does after such a cycle, unless a stop cancels it, is to begin its
\* next cycle.
C23_ErrorStaysInCycle ==
    /\ []TasksInLoop
    /\ []EverySourceMonitored
    /\ [][\A t \in DOMAIN asyncio_tasks :
            /\ FailsIn(t)
               => /\ asyncio_tasks'[t].pc = "sleep"
                  /\ asyncio_tasks'[t].fetches <= 1
                  /\ asyncio_tasks'[t].calls = asyncio_tasks[t].calls
                  /\ \A u \in (DOMAIN asyncio_tasks) \ {t} :
                        u \in DOMAIN asyncio_tasks' /\ asyncio_tasks'[u] = asyncio_tasks[u]
                  /\ monitoring_active' = monitoring_active
                  /\ monitoring_tasks' = monitoring_tasks
            /\ SleepsAfterError(t)
               => IF t \in DOMAIN asyncio_tasks'
                  THEN \/ asyncio_tasks'[t] = asyncio_tasks[t]
                       \/ asyncio_tasks'[t].must_cancel /\ ~monitoring_active'
                       \/ BeginsNextCycle(t)
                  ELSE FALSE]_vars

\* a cycle of the BMKG task ended in an error (a magnitude that is no
\* number) and the task sleeps, while the task of another source is in the
\* callback it invoked
C23_Witness ==
    \E t, u \in DOMAIN asyncio_tasks :
        /\ asyncio_tasks[t].source = "bmkg_autogempa"
        /\ SleepsAfterError(t)
        /\ asyncio_tasks[t].fetched = << [Infogempa |-> [gempa |-> [Magnitude |-> "abc"]]] >>
        /\ asyncio_tasks[u].pc = "callback"
        /\ monitoring_active

\* the step invokes the orchestrator callback from the task t
Invokes(t) ==
    IF t \in DOMAIN asyncio_tasks'
    THEN asyncio_tasks'[t].pc = "callback" /\ asyncio_tasks[t].pc # "callback"
    ELSE FALSE

Registered(t) ==
    \E s \in DOMAIN monitoring_tasks : monitoring_tasks[s] = t

\* C24: stop_monitoring leaves monitoring_active false and no task
\* registered, and asks every registered task to cancel where it stands,
\* an unfinished fetch included; a task asked to cancel does nothing more
\* than end, so the callback is invoked only by a task of the latest start
\* while monitoring is active.
C24_StopCancelsAll ==
    /\ [](~monitoring_active =>
            /\ monitoring_tasks = EmptyDict
            /\ \A t \in DOMAIN asyncio_tasks : asyncio_tasks[t].must_cancel)
    /\ [][(monitoring_active /\ ~monitoring_active') =>
            /\ DOMAIN asyncio_tasks' = DOMAIN asyncio_tasks
            /\ \A t \in DOMAIN asyncio_tasks :
                  /\ asyncio_tasks'[t].must_cancel
                  /\ asyncio_tasks'[t].pc = asyncio_tasks[t].pc]_vars
    /\ [][\A t \in DOMAIN asyncio_tasks :
            /\ Invokes(t) =>
                  monitoring_active /\ Registered(t) /\ ~asyncio_tasks[t].must_cancel
            /\ asyncio_tasks[t].must_cancel =>
                  IF t \in DOMAIN asyncio_tasks'
                  THEN asyncio_tasks'[t] = asyncio_tasks[t]
                  ELSE TRUE]_vars

\* monitoring was stopped while the BMKG fetch was in flight and a callback
\* of another source was running: both tasks are asked to cancel where they
\* stand
C24_Witness ==
    /\ ~monitoring_active
    /\ \E t, u \in DOMAIN asyncio_tasks :
          /\ asyncio_tasks[t].source = "bmkg_autogempa"
          /\ asyncio_tasks[t].pc = "fetch" /\ asyncio_tasks[t].must_cancel
          /\ asyncio_tasks[u].pc = "callback" /\ asyncio_tasks[u].must_cancel

---------------------------------------------------------------------------
(***************************************************************************)
(* process_raw_data when the fan-out after the creation of a DAO fails:    *)
(* the process of the communications agent, or of the logistics agent,     *)
(* raises.  _create_event_dao, _process_validation_result,                 *)
(* _initiate_validation_process and process_raw_data have no try, so the   *)
(* exception leaves each of them at the await that raised.                 *)
(***************************************************************************)
FanoutAgents == {"communications", "logistics_ai"}

\* _create_event_dao, where the process of the agent `failing` raises when
\* it is called ("none": no agent does); raised tells whether the exception
\* left the function
CreateEventDaoFanout(s, consensus_result, failing) ==
    LET made == EventFactoryProcess(s, consensus_result)
        created == SetPipeline(made.state, consensus_result.event_id, "dao_created")
    IN  IF made.ret = <<>> THEN [state |-> made.state, raised |-> FALSE]
        ELSE IF failing = "communications" THEN [state |-> created, raised |-> TRUE]
        ELSE IF failing = "logistics_ai"
             THEN [state |-> InitiateCommunications(created, made.ret[1]), raised |-> TRUE]
        ELSE [state |-> CreateEventDao(s, consensus_result), raised |-> FALSE]

\* _process_validation_result with that fan-out
ProcessValidationResultFanout(s, validation_result, failing) ==
    LET got == ConsensusProcess(s, validation_result)
    IN  IF got.ret # <<>> /\ got.ret[1].decision
        THEN CreateEventDaoFanout(
                 SetPipeline(got.state, got.ret[1].event_id, "consensus_reached"),
                 got.ret[1], failing)
        ELSE [state |-> ProcessValidationResult(s, validation_result), raised |-> FALSE]

\* the for loop over the gathered results: it ends where a result raises
RECURSIVE FeedResultsFanout(_, _, _)
FeedResultsFanout(s, results, failing) ==
    IF results = <<>> THEN [state |-> s, raised |-> FALSE]
    ELSE LET fed == ProcessValidationResultFanout(s, Head(results), failing)
         IN  IF fed.raised THEN fed
             ELSE FeedResultsFanout(fed.state, Tail(results), failing)

\* One call of process_raw_data with that fan-out.  last_call keeps the
\* event of the call and whether the call returned its event_id or raised.
ProcessRawDataFanout(raw_data, timestamp, noise, failing) ==
    /\ validation_history["multimodal_validator"] < MaxCalls
    /\ timestamp \in {now, now + 1}
    /\ LET parsed == Parse(raw_data, timestamp)
       IN  /\ parsed # <<>>
           /\ LET event == parsed[1]
                  tasks == ValidationTasks(event)
                  invoked == {tasks[i] : i \in 1..Len(tasks)}
                  done == [v \in invoked |->
                              Validate(v, stake_balance[v], event, noise[v])]
                  results == [i \in 1..Len(tasks) |-> done[tasks[i]].result]
                  started == SetPipeline(
                                 [State EXCEPT !.active_events =
                                     Put(active_events, event.event_id, event)],
                                 event.event_id, "validation_started")
                  fed == FeedResultsFanout(started, results, failing)
              IN  /\ now' = timestamp
                  /\ stake_balance' =
                         [v \in Validators |->
                             IF v \in invoked THEN done[v].balance ELSE stake_balance[v]]
                  /\ validation_history' =
                         [v \in Validators |->
                             IF v \in invoked /\ done[v].staked
                             THEN validation_history[v] + 1
                             ELSE validation_history[v]]
                  /\ last_validation' =
                         [v \in (DOMAIN last_validation) \cup invoked |->
                             IF v \in invoked THEN done[v].result ELSE last_validation[v]]
                  /\ Commit(fed.state)
                  /\ last_call' = << [event_id |-> event.event_id,
                                      failing |-> failing,
                                      outcome |-> IF fed.raised THEN "raised"
                                                  ELSE "returned"] >>
                  /\ UNCHANGED <<vault_balance, payout_history, action_inbox,
                                 handler_log, monitoring_active, monitoring_tasks,
                                 asyncio_tasks, polls, oracle_agent, service_vars>>

NextFanout ==
    \E raw_data \in RawInputs, timestamp \in {now, now + 1}, noise \in NoiseDraws,
       failing \in FanoutAgents \cup {"none"} :
        ProcessRawDataFanout(raw_data, timestamp, noise, failing)

SpecFanout == Init /\ [][NextFanout]_vars

---------------------------------------------------------------------------
(* AegisOrchestrator.complete_mission *)

\* an event_id no call of process_raw_data produced
UnknownEventId == EventId("earthquake", "nowhere", 0)

\* complete_mission(event_id, outcome, participants) with no participants,
\* for which the reputation manager mints nothing: False for an event the
\* pipeline does not know, else the status of the event becomes
\* "mission_completed" and the call returns True.  Nothing else is written.
CompleteMission(event_id, outcome) ==
    /\ IF event_id \notin DOMAIN event_pipeline
       THEN UNCHANGED event_pipeline
       ELSE event_pipeline' = Put(event_pipeline, event_id, "mission_completed")
    /\ UNCHANGED <<now, active_events, stake_balance, validation_history,
                   last_validation, pending_validations, consensus_results,
                   active_daos, parametric_vault_balance, event_log,
                   vault_balance, payout_history, agent_vars>>

NextMission ==
    \/ \E raw_data \in RawInputs, timestamp \in {now, now + 1}, noise \in NoiseDraws :
          ProcessRawData(raw_data, timestamp, noise)
    \/ \E event_id \in (DOMAIN event_pipeline) \cup {UnknownEventId},
          outcome \in {"success", "partial", "failed"} :
          CompleteMission(event_id, outcome)

SpecMission == Init /\ [][NextMission]_vars

---------------------------------------------------------------------------
(* The end-to-end scenario: three scores for one event *)

\* (accept, 0.9, 1000), (accept, 0.85, 800), (reject, 0.6, 500)
ScenarioScores(e) ==
    {ValidationResult("earthquake_validator", e, (9 * ConfOne) \div 10, Tokens(1000), TRUE),
     ValidationResult("multimodal_validator", e, (85 * ConfOne) \div 100, Tokens(800), TRUE),
     ValidationResult("social_validator", e, (6 * ConfOne) \div 10, Tokens(500), FALSE)}

\* the event e was scored by exactly these three, in some order
ScoredAsScenario(e) ==
    /\ e \in DOMAIN pending_validations
    /\ Len(pending_validations[e]) = 3
    /\ {pending_validations[e][i] : i \in 1..3} = ScenarioScores(e)

\* C27: for an event scored by exactly the three validators with (accept,
\* 0.9, 1000), (accept, 0.85, 800), (reject, 0.6, 500), the decision is
\* accept, positive_ratio is 0.75, exactly one EventDAO is created and holds
\* the fixed initial allocation, and the two accepting validators are
\* rewarded (their balances grow) while the rejecting one is penalized.
C27_ScenarioOutcome ==
    \A e \in ScoreEventIds :
        ScoredAsScenario(e)
        => /\ e \in DOMAIN consensus_results
           /\ consensus_results[e].decision
           /\ consensus_results[e].positive_ratio = Quot(3 * ConfOne, 4)
           /\ Cardinality(Lines(LogOf(e), {"dao_created"})) = 1
           /\ DaoId(e) \in DOMAIN active_daos
           /\ active_daos[DaoId(e)].treasury_balance = InitialFunding
           /\ Cardinality(Lines(LogOf(e), {"reward"})) = 2
           /\ Cardinality(Lines(LogOf(e), {"penalty"})) = 1
           /\ stake_balance["earthquake_validator"] > InitialStake("earthquake_validator")
           /\ stake_balance["multimodal_validator"] > InitialStake("multimodal_validator")

---------------------------------------------------------------------------
(* The oracle agent (services/ai_agent/agents/oracle_agent.py) *)

\* how many times the interval handler is triggered
MaxIntervals == 2

\* Magnitudes are in thousandths.  f"{magnitude:.2f}" keeps two decimals,
\* rounding to the nearest hundredth; the feeds below hold no tie.
Format2f(magnitude) == (magnitude + 5) \div 10

\* event_id = f"{eq_data.source}-{eq_data.timestamp}-{eq_data.magnitude:.2f}"
OracleEventId(eq_data) ==
    <<eq_data.source, eq_data.timestamp, Format2f(eq_data.magnitude)>>

\* What _fetch_from_source can return for the USGS feed: the parsed features
\* in feed order, none on any error.  5001 and 5004 print as 5.00.
UsgsResults ==
    LET events == {[source |-> "USGS_API_Oracle", magnitude |-> m, timestamp |-> 100] :
                      m \in {5001, 5004, 5012}}
    IN  {<<>>} \cup {<<e>> : e \in events}
               \cup {<<e, f>> : e \in events, f \in events}

\* ... and for the BMKG feed, which carries one earthquake at most.
BmkgResults ==
    {<<>>, <<[source |-> "BMKG_API_Oracle", magnitude |-> 5200, timestamp |-> 100]>>}

IsNewAlways(event_id, seen) == TRUE

\* event_id not in SEEN_EVENT_IDS
IsNew(event_id, seen) == event_id \notin seen

\* The duplicate detection loop: the new events in order, the ids seen after
\* the loop, and the ids the loop logged as duplicates.
RECURSIVE Deduplicate(_, _, _, _)
Deduplicate(all_earthquakes, new_earthquakes_to_send, seen, duplicates) ==
    IF all_earthquakes = <<>>
    THEN [new_earthquakes_to_send |-> new_earthquakes_to_send,
          seen |-> seen, duplicates |-> duplicates]
    ELSE LET eq_data == Head(all_earthquakes)
             event_id == OracleEventId(eq_data)
         IN  IF IsNew(event_id, seen)
             THEN Deduplicate(Tail(all_earthquakes),
                              Append(new_earthquakes_to_send, eq_data),
                              seen \cup {event_id}, duplicates)
             ELSE Deduplicate(Tail(all_earthquakes), new_earthquakes_to_send,
                              seen, duplicates \cup {event_id})

\* the module is imported: VALIDATOR_AGENT_ADDRESS = os.getenv(...), set or not
ImportOracleAgent ==
    /\ ~oracle_agent.loaded
    /\ \E address \in {<<>>, <<"validator_agent">>} :
          oracle_agent' = [oracle_agent EXCEPT !.loaded = TRUE,
                                               !.VALIDATOR_AGENT_ADDRESS = address]

\* The interval fires and fetch_and_send_data runs up to the gather.  Without
\* an address it returns at once.  The scheduling of the handler belongs to
\* the uagents framework; runs may overlap here, which includes the schedule
\* where each run ends before the next begins.
FetchAndSendData ==
    /\ oracle_agent.loaded
    /\ oracle_agent.intervals < MaxIntervals
    /\ LET run == oracle_agent.intervals + 1
       IN  oracle_agent' =
               [oracle_agent EXCEPT
                   !.intervals = run,
                   !.runs = IF oracle_agent.VALIDATOR_AGENT_ADDRESS = <<>>
                            THEN @
                            ELSE Put(@, run, [pc |-> "gather",
                                              new_earthquakes_to_send |-> <<>>])]

RunEnds(run) == [r \in (DOMAIN oracle_agent.runs) \ {run} |-> oracle_agent.runs[r]]

\* The gather returns: flatten, return if nothing was fetched, deduplicate,
\* return if nothing is new, else go on to the first send.
GatherReturns(run, usgs, bmkg) ==
    /\ run \in DOMAIN oracle_agent.runs
    /\ oracle_agent.runs[run].pc = "gather"
    /\ LET all_earthquakes == usgs \o bmkg
           loop == Deduplicate(all_earthquakes, <<>>, oracle_agent.SEEN_EVENT_IDS,
                               oracle_agent.duplicates)
       IN  oracle_agent' =
               [oracle_agent EXCEPT
                   !.SEEN_EVENT_IDS = loop.seen,
                   !.duplicates = loop.duplicates,
                   !.runs = IF loop.new_earthquakes_to_send = <<>>
                            THEN RunEnds(run)
                            ELSE Put(@, run,
                                     [pc |-> "send",
                                      new_earthquakes_to_send |->
                                          loop.new_earthquakes_to_send])]

\* a send that, when it fails, takes the identifier out of SEEN_EVENT_IDS again
SendReturnsForgetsFailed(run, raises) ==
    /\ run \in DOMAIN oracle_agent.runs
    /\ oracle_agent.runs[run].pc = "send"
    /\ LET pending == oracle_agent.runs[run].new_earthquakes_to_send
           eq_data == Head(pending)
       IN  oracle_agent' =
               [oracle_agent EXCEPT
                   !.sent = Append(@, [eq_data |-> eq_data, delivered |-> ~raises]),
                   !.SEEN_EVENT_IDS = IF raises THEN @ \ {OracleEventId(eq_data)} ELSE @,
                   !.runs = IF Tail(pending) = <<>>
                            THEN RunEnds(run)
                            ELSE Put(@, run, [pc |-> "send",
                                              new_earthquakes_to_send |-> Tail(pending)])]

\* await ctx.send(VALIDATOR_AGENT_ADDRESS, eq_data) for the next new event;
\* a send that raises is logged and the loop goes on.
SendReturns(run, raises) ==
    /\ run \in DOMAIN oracle_agent.runs
    /\ oracle_agent.runs[run].pc = "send"
    /\ LET pending == oracle_agent.runs[run].new_earthquakes_to_send
           eq_data == Head(pending)
       IN  oracle_agent' =
               [oracle_agent EXCEPT
                   !.sent = Append(@, [eq_data |-> eq_data, delivered |-> ~raises]),
                   !.runs = IF Tail(pending) = <<>>
                            THEN RunEnds(run)
                            ELSE Put(@, run, [pc |-> "send",
                                              new_earthquakes_to_send |-> Tail(pending)])]

oracle_agent_others ==
    <<now, active_events, event_pipeline, stake_balance, validation_history,
      last_validation, pending_validations, consensus_results, active_daos,
      parametric_vault_balance, event_log, vault_balance, payout_history,
      action_inbox, handler_log, monitoring_active, monitoring_tasks,
      asyncio_tasks, polls, last_call, service_vars>>

NextOracleAgent ==
    \/ ImportOracleAgent /\ UNCHANGED oracle_agent_others
    \/ FetchAndSendData /\ UNCHANGED oracle_agent_others
    \/ \E run \in DOMAIN oracle_agent.runs, usgs \in UsgsResults, bmkg \in BmkgResults :
          GatherReturns(run, usgs, bmkg) /\ UNCHANGED oracle_agent_others
    \/ \E run \in DOMAIN oracle_agent.runs, raises \in BOOLEAN :
          SendReturns(run, raises) /\ UNCHANGED oracle_agent_others

SpecOracleAgent == Init /\ [][NextOracleAgent]_vars

\* C28: over all polling cycles, no two sends to the validator agent carry
\* the same identifier (source, timestamp, magnitude to two decimals); every
\* identifier sent is in SEEN_EVENT_IDS, and an event still waiting to be
\* sent has not been sent before.
C28_SentAtMostOnce ==
    /\ \A i \in 1..Len(oracle_agent.sent), j \in 1..Len(oracle_agent.sent) :
          i # j => OracleEventId(oracle_agent.sent[i].eq_data)
                       # OracleEventId(oracle_agent.sent[j].eq_data)
    /\ \A i \in 1..Len(oracle_agent.sent) :
          OracleEventId(oracle_agent.sent[i].eq_data) \in oracle_agent.SEEN_EVENT_IDS
    /\ \A run \in DOMAIN oracle_agent.runs :
          \A k \in 1..Len(oracle_agent.runs[run].new_earthquakes_to_send) :
             \A i \in 1..Len(oracle_agent.sent) :
                OracleEventId(oracle_agent.runs[run].new_earthquakes_to_send[k])
                    # OracleEventId(oracle_agent.sent[i].eq_data)

\* a second cycle fetched an event that had been sent, and filtered it
C28_Witness ==
    /\ oracle_agent.intervals = MaxIntervals
    /\ oracle_agent.runs = EmptyDict
    /\ \E i \in 1..Len(oracle_agent.sent) :
          /\ oracle_agent.sent[i].delivered
          /\ OracleEventId(oracle_agent.sent[i].eq_data) \in oracle_agent.duplicates
    /\ Len(oracle_agent.sent) >= 2

---------------------------------------------------------------------------
(* The vault and the treasuries of the DAOs in active_daos *)

\* sum of treasury_balance over the DAOs held under the given dao ids
RECURSIVE TreasuryTotal(_)
TreasuryTotal(dao_ids) ==
    IF dao_ids = {} THEN 0
    ELSE LET dao_id == CHOOSE d \in dao_ids : TRUE
         IN  active_daos[dao_id].treasury_balance + TreasuryTotal(dao_ids \ {dao_id})

\* C29: the vault balance is never negative, and the vault balance plus the
\* treasuries of the DAOs in active_daos is the initial vault balance.
C29_VaultPlusTreasuries ==
    /\ parametric_vault_balance >= 0
    /\ parametric_vault_balance + TreasuryTotal(DOMAIN active_daos) = InitialVault

---------------------------------------------------------------------------
(* Which events of process_raw_data reach a decision *)

\* the validators whose scores the consensus manager holds for an event
ScoredBy(e) ==
    {pending_validations[e][i].validator_id : i \in 1..Len(pending_validations[e])}

\* The event_id was produced by one call only: the multimodal validator, which
\* scores in every call, has one score in the list of the event.
ProducedOnce(e) ==
    /\ e \in DOMAIN pending_validations
    /\ Cardinality({i \in 1..Len(pending_validations[e]) :
                       pending_validations[e][i].validator_id = "multimodal_validator"}) = 1

\* data_sources of the events the bmkg_earthquake, petabencana_flood and
\* nasa_firms_fire parsers build
FeedSources == {"bmkg_autogempa", "petabencana", "nasa_firms"}

\* C30: for an event_id that one call of process_raw_data produced, a
\* consensus decision exists only if all three validators scored the event,
\* which is then an earthquake with social_media among its data sources; an
\* event parsed from the BMKG, PetaBencana or NASA FIRMS feed holds at most
\* two scores, is in validation_started, and has no decision and no DAO.
C30_DecisionNeedsThreeValidators ==
    \A e \in DOMAIN active_events :
        ProducedOnce(e)
        => /\ e \in DOMAIN consensus_results
                => /\ ScoredBy(e) = Validators
                   /\ Len(pending_validations[e]) = 3
                   /\ active_events[e].disaster_type = "earthquake"
                   /\ "social_media" \in active_events[e].data_sources
           /\ active_events[e].data_sources \cap FeedSources # {}
                => /\ Len(pending_validations[e]) <= 2
                   /\ Cardinality(ScoredBy(e)) <= 2
                   /\ event_pipeline[e] = "validation_started"
                   /\ e \notin DOMAIN consensus_results
                   /\ DaoId(e) \notin DOMAIN active_daos

\* two calls with distinct event_ids: an earthquake reported by social media,
\* decided on three scores, and a BMKG earthquake left with two scores
C30_Witness ==
    \E e1, e2 \in DOMAIN active_events :
        /\ e1 # e2
        /\ ProducedOnce(e1)
        /\ ProducedOnce(e2)
        /\ e1 \in DOMAIN consensus_results
        /\ ScoredBy(e1) = Validators
        /\ "bmkg_autogempa" \in active_events[e2].data_sources
        /\ ScoredBy(e2) = {"multimodal_validator", "earthquake_validator"}
        /\ event_pipeline[e2] = "validation_started"

---------------------------------------------------------------------------
(* ParametricInsuranceVault.auto_payout until the vault is spent *)

\* how many payouts the vault makes at most
MaxDrainPayouts == 6

\* the events paid here: an earthquake and a flood, both critical, magnitude 6.1
DrainEventData ==
    {d \in PayoutEventData : d.event_id[3] = 3 /\ d.disaster_type # "fire"}

AutoPayoutOverdraws(consensus_result, event_data) ==
    /\ Len(payout_history) < MaxDrainPayouts
    /\ LET policy == FindPolicy(event_data, consensus_result)
       IN  IF ~consensus_result.decision \/ policy = <<>>
           THEN UNCHANGED <<vault_balance, payout_history>>
           ELSE /\ vault_balance' = vault_balance - policy[1].payout
                /\ payout_history' =
                       Append(payout_history,
                              PayoutRecord(event_data.event_id, policy[1].policy_id,
                                           policy[1].payout))
    /\ UNCHANGED <<now, active_events, event_pipeline, stake_balance, validation_history,
                   last_validation, pending_validations, consensus_results, active_daos,
                   parametric_vault_balance, event_log, agent_vars>>

\* auto_payout, called as long as fewer than MaxDrainPayouts records exist
AutoPayoutUntilSpent(consensus_result, event_data) ==
    /\ Len(payout_history) < MaxDrainPayouts
    /\ LET policy == FindPolicy(event_data, consensus_result)
       IN  IF ~consensus_result.decision \/ policy = <<>>
              \/ vault_balance < policy[1].payout
           THEN UNCHANGED <<vault_balance, payout_history>>
           ELSE /\ vault_balance' = vault_balance - policy[1].payout
                /\ payout_history' =
                       Append(payout_history,
                              PayoutRecord(event_data.event_id, policy[1].policy_id,
                                           policy[1].payout))
    /\ UNCHANGED <<now, active_events, event_pipeline, stake_balance, validation_history,
                   last_validation, pending_validations, consensus_results, active_daos,
                   parametric_vault_balance, event_log, agent_vars>>

NextDrain ==
    \E consensus_result \in PayoutConsensus, event_data \in DrainEventData :
        AutoPayoutUntilSpent(consensus_result, event_data)

SpecDrain == Init /\ [][NextDrain]_vars

\* the sum of the amounts of the first n records of payout_history
RECURSIVE PaidOut(_)
PaidOut(n) == IF n = 0 THEN 0 ELSE payout_history[n].amount + PaidOut(n - 1)

\* C31: the balance of the vault is never negative and, with the amounts of
\* payout_history, adds up to the initial balance; a call of auto_payout with
\* a negative decision, with no matching policy, or with a balance below the
\* payout of the matching policy, changes neither balance nor payout_history,
\* and every call that appends no record leaves the balance as it was.
C31_VaultConserved ==
    /\ [](/\ vault_balance >= 0
          /\ vault_balance + PaidOut(Len(payout_history)) = InitialBalance)
    /\ [][\A c \in PayoutConsensus, d \in DrainEventData :
             AutoPayoutUntilSpent(c, d)
             => /\ (\/ ~c.decision
                    \/ FindPolicy(d, c) = <<>>
                    \/ vault_balance < FindPolicy(d, c)[1].payout)
                      => /\ vault_balance' = vault_balance
                         /\ payout_history' = payout_history
                /\ payout_history' = payout_history
                      => vault_balance' = vault_balance]_vars

\* the vault paid five times 2,000,000 and holds nothing for a sixth payout
C31_Witness ==
    /\ vault_balance = 0
    /\ Len(payout_history) = 5

---------------------------------------------------------------------------
(* The order of the statuses of event_pipeline *)

\* the place of a status in the order parsing_complete < validation_started <
\* consensus_reached < (false_alarm | dao_created) < notifications_sent <
\* logistics_planned < mission_completed
StatusRank(status) ==
    CASE status = "parsing_complete" -> 1
      [] status = "validation_started" -> 2
      [] status = "consensus_reached" -> 3
      [] status \in {"false_alarm", "dao_created"} -> 4
      [] status = "notifications_sent" -> 5
      [] status = "logistics_planned" -> 6
      [] status = "mission_completed" -> 7

\* C34: no step moves the status of an event backward in that order, and the
\* status of an event that is mission_completed stays mission_completed.
C34_PipelineForwardOnly ==
    [][\A e \in DOMAIN event_pipeline :
           /\ e \in DOMAIN event_pipeline'
           /\ StatusRank(event_pipeline'[e]) >= StatusRank(event_pipeline[e])
           /\ event_pipeline[e] = "mission_completed"
                  => event_pipeline'[e] = "mission_completed"]_vars

---------------------------------------------------------------------------
(***************************************************************************)
(* GovernanceSystem (aegis protocol/governance_system.py).  The clock is   *)
(* `now`, in hours; voting power is in tenths.                             *)
(***************************************************************************)

\* how many hours pass, and how many executions are followed
MaxHours == 2
MaxExecutions == 2

\* _get_participant_info knows four participants; any other has no power
Participants == {"vol_001", "ngo_001", "donor_001", "validator_001", "stranger"}

\* _calculate_voting_power on the mock participants: min(base + bonus, max)
CalculateVotingPower(participant_id) ==
    CASE participant_id = "vol_001" -> 30        \* min(2 + 1, 5)
      [] participant_id = "ngo_001" -> 54        \* min(3 + 4.8 * 0.5, 8)
      [] participant_id = "donor_001" -> 60      \* min(1 + 50 * 0.1, 10)
      [] participant_id = "validator_001" -> 30  \* min(1 + 2, 4)
      [] OTHER -> 0

\* _get_total_eligible_voting_power: 25.0
EligibleVotingPower == 250

\* _setup_proposal_requirements, for the two types with the shortest periods;
\* the thresholds are in hundredths
ProposalRequirements(proposal_type) ==
    CASE proposal_type = "emergency_decision" ->
            [min_voting_power |-> 10, passing_threshold |-> 51,
             min_participation |-> 20, voting_period_hours |-> 1]
      [] proposal_type = "logistics_change" ->
            [min_voting_power |-> 30, passing_threshold |-> 55,
             min_participation |-> 30, voting_period_hours |-> 2]

\* the voting power of the votes of a proposal that carry one of the choices
RECURSIVE VotePower(_, _, _)
VotePower(votes, voters, choices) ==
    IF voters = {} THEN 0
    ELSE LET voter == CHOOSE v \in voters : TRUE
         IN  (IF votes[voter].choice \in choices THEN votes[voter].voting_power ELSE 0)
             + VotePower(votes, voters \ {voter}, choices)

\* finalize_proposal at clock reading t: nothing for an unknown proposal or
\* before voting_ends_at; else the status is set from the results, and a
\* passed proposal is executed, which leaves it executed
FinalizeProposal(g, proposal_id, t) ==
    IF proposal_id \notin DOMAIN g.active_proposals THEN g
    ELSE LET proposal == g.active_proposals[proposal_id]
             requirements == ProposalRequirements(proposal.proposal_type)
             yes == VotePower(proposal.votes, DOMAIN proposal.votes, {"yes"})
             total == VotePower(proposal.votes, DOMAIN proposal.votes,
                                {"yes", "no", "abstain"})
             passed == /\ total > 0
                       /\ 100 * yes >= requirements.passing_threshold * total
                       /\ 100 * total >= requirements.min_participation * EligibleVotingPower
         IN  IF t < proposal.voting_ends_at THEN g
             ELSE [active_proposals |->
                       Put(g.active_proposals, proposal_id,
                           [proposal EXCEPT !.status = IF passed THEN "executed"
                                                       ELSE "failed"]),
                   executed |-> IF passed THEN Append(g.executed, proposal_id)
                                ELSE g.executed]

\* whether _check_early_finalization calls finalize_proposal
EarlyFinalization(proposal) ==
    /\ Cardinality(DOMAIN proposal.votes) >= 3
    /\ \A voter \in DOMAIN proposal.votes : proposal.votes[voter].choice = "yes"
    /\ 2 * VotePower(proposal.votes, DOMAIN proposal.votes, {"yes", "no", "abstain"})
           >= EligibleVotingPower

governance_others ==
    <<active_events, event_pipeline, stake_balance, validation_history,
      last_validation, pending_validations, consensus_results, active_daos,
      parametric_vault_balance, event_log, vault_balance, payout_history,
      action_inbox, handler_log, monitoring_active, monitoring_tasks,
      asyncio_tasks, polls, last_call, oracle_agent, ic_state, api_server, ws_server>>

\* the id of the one proposal created here, and an id no proposal has
ProposalIds == {<<"prop", "dao", 0>>, <<"prop", "dao", 1>>}

\* create_proposal, for the first proposal
CreateProposal(proposer_id, proposal_type) ==
    /\ governance.active_proposals = EmptyDict
    /\ IF CalculateVotingPower(proposer_id)
              < ProposalRequirements(proposal_type).min_voting_power
       THEN UNCHANGED governance
       ELSE governance' =
               [governance EXCEPT !.active_proposals =
                   Put(@, <<"prop", "dao", Cardinality(DOMAIN @)>>,
                       [proposal_type |-> proposal_type,
                        voting_ends_at |->
                            now + ProposalRequirements(proposal_type).voting_period_hours,
                        status |-> "active",
                        votes |-> EmptyDict])]
    /\ UNCHANGED <<now, governance_others>>

\* cast_vote: the vote is recorded unless the proposal is unknown or the
\* voting period is over, then _check_early_finalization runs
CastVote(proposal_id, voter_id, choice) ==
    /\ Len(governance.executed) < MaxExecutions
    /\ IF proposal_id \notin DOMAIN governance.active_proposals
       THEN UNCHANGED governance
       ELSE LET proposal == governance.active_proposals[proposal_id]
                voted == [proposal EXCEPT !.votes =
                             Put(@, voter_id,
                                 [choice |-> choice,
                                  voting_power |-> CalculateVotingPower(voter_id)])]
                recorded == [governance EXCEPT !.active_proposals =
                                Put(@, proposal_id, voted)]
            IN  IF now > proposal.voting_ends_at
                THEN UNCHANGED governance
                ELSE governance' = IF EarlyFinalization(voted)
                                   THEN FinalizeProposal(recorded, proposal_id, now)
                                   ELSE recorded
    /\ UNCHANGED <<now, governance_others>>

\* a call of finalize_proposal
Finalize(proposal_id) ==
    /\ Len(governance.executed) < MaxExecutions
    /\ governance' = FinalizeProposal(governance, proposal_id, now)
    /\ UNCHANGED <<now, governance_others>>

\* an hour passes
HourPasses ==
    /\ now <= MaxHours
    /\ now' = now + 1
    /\ UNCHANGED <<governance, governance_others>>

NextGovernance ==
    \/ \E proposer_id \in Participants,
          proposal_type \in {"emergency_decision", "logistics_change"} :
          CreateProposal(proposer_id, proposal_type)
    \/ \E proposal_id \in ProposalIds,
          voter_id \in Participants, choice \in {"yes", "no", "abstain"} :
          CastVote(proposal_id, voter_id, choice)
    \/ \E proposal_id \in ProposalIds :
          Finalize(proposal_id)
    \/ HourPasses

SpecGovernance == Init /\ [][NextGovernance]_vars

\* C32: a proposal whose status is passed, failed or executed keeps that
\* status in every later step, and no proposal is executed more than once.
C32_FinalizedOnce ==
    /\ [](\A i, j \in 1..Len(governance.executed) :
             governance.executed[i] = governance.executed[j] => i = j)
    /\ [][\A p \in DOMAIN governance.active_proposals :
             governance.active_proposals[p].status # "active"
             => governance.active_proposals'[p].status
                    = governance.active_proposals[p].status]_vars

\* C33: a proposal that holds at least 3 votes, all of them yes, with a
\* participation of at least 50% of the eligible voting power, is no longer
\* active, whatever the clock reads.
C33_EarlyFinalization ==
    \A p \in DOMAIN governance.active_proposals :
        EarlyFinalization(governance.active_proposals[p])
        => governance.active_proposals[p].status # "active"

---------------------------------------------------------------------------
(***************************************************************************)
(* The action agent (services/ai_agent/agents/action_agent.py): the        *)
(* startup hook initialize_ic_agent and the handler of validated events.   *)
(***************************************************************************)

\* how many validated events arrive
MaxValidatedEvents == 3

ReadyOnceCanisterKnown(state) == state.factory_canister_id # <<>>

\* the test of call_icp_declare_event: ic_state["is_ready"]
IsReady(state) == state.is_ready

ic_state_others ==
    <<now, active_events, event_pipeline, stake_balance, validation_history,
      last_validation, pending_validations, consensus_results, active_daos,
      parametric_vault_balance, event_log, vault_balance, payout_history,
      action_inbox, handler_log, monitoring_active, monitoring_tasks,
      asyncio_tasks, polls, last_call, oracle_agent, governance, api_server, ws_server>>

\* The agent starts.  initialize_ic_agent runs only if it could be appended
\* to the startup hooks; it then waits for the canister id file.
AgentStarts(registered) ==
    /\ ic_state.startup = "not_started"
    /\ ic_state' = [ic_state EXCEPT !.startup = IF registered THEN "canister_ids"
                                                ELSE "unregistered"]
    /\ UNCHANGED ic_state_others

\* The first half of initialize_ic_agent: the file is waited for and read.
\* Only a file that names the factory canister sets factory_canister_id;
\* every other outcome makes the hook return.
ReadCanisterIds(outcome) ==
    /\ ic_state.startup = "canister_ids"
    /\ ic_state' = IF outcome = "named"
                   THEN [ic_state EXCEPT !.factory_canister_id = <<"event_factory">>,
                                         !.startup = "identity"]
                   ELSE [ic_state EXCEPT !.startup = "returned"]
    /\ UNCHANGED ic_state_others

\* The second half: the identity is read and the IC agent built, after which
\* is_ready is set; a missing or unreadable identity makes the hook return.
LoadIdentity(outcome) ==
    /\ ic_state.startup = "identity"
    /\ ic_state' = IF outcome = "loaded"
                   THEN [ic_state EXCEPT !.agent = <<"ICAgent">>,
                                         !.is_ready = TRUE,
                                         !.startup = "done"]
                   ELSE [ic_state EXCEPT !.startup = "returned"]
    /\ UNCHANGED ic_state_others

\* handle_validated_event: call_icp_declare_event drops the event unless the
\* connection is ready; else update_raw is called with the agent and the
\* canister id that ic_state holds, and an error of the call is only logged
HandleValidatedEvent(msg, call_raises) ==
    /\ Len(ic_state.calls) + ic_state.dropped < MaxValidatedEvents
    /\ ic_state' = IF ~IsReady(ic_state)
                   THEN [ic_state EXCEPT !.dropped = @ + 1]
                   ELSE [ic_state EXCEPT !.calls =
                            Append(@, [event |-> msg,
                                       agent |-> ic_state.agent,
                                       canister_id |-> ic_state.factory_canister_id,
                                       is_ready |-> ic_state.is_ready,
                                       raised |-> call_raises])]
    /\ UNCHANGED ic_state_others

NextActionAgent ==
    \/ \E registered \in BOOLEAN : AgentStarts(registered)
    \/ \E outcome \in {"named", "no_file", "unreadable", "not_named"} :
          ReadCanisterIds(outcome)
    \/ \E outcome \in {"loaded", "no_file", "unreadable"} : LoadIdentity(outcome)
    \/ \E msg \in {"Critical", "High"}, call_raises \in BOOLEAN :
          HandleValidatedEvent(msg, call_raises)

SpecActionAgent == Init /\ [][NextActionAgent]_vars

\* C35: every canister call was made while is_ready was true, with the agent
\* and the factory canister id set; is_ready is true only when both are set;
\* and an event handled while is_ready is false is dropped with no call.
C35_CallsOnlyWhenReady ==
    /\ [](/\ ic_state.is_ready
                => ic_state.agent # <<>> /\ ic_state.factory_canister_id # <<>>
          /\ \A i \in 1..Len(ic_state.calls) :
                /\ ic_state.calls[i].is_ready
                /\ ic_state.calls[i].agent # <<>>
                /\ ic_state.calls[i].canister_id # <<>>)
    /\ [][\A msg \in {"Critical", "High"}, call_raises \in BOOLEAN :
             (HandleValidatedEvent(msg, call_raises) /\ ~ic_state.is_ready)
             => /\ ic_state'.calls = ic_state.calls
                /\ ic_state'.dropped = ic_state.dropped + 1]_vars

\* an event dropped before the connection was ready, and an event passed to
\* the canister once it was
C35_Witness ==
    /\ ic_state.dropped >= 1
    /\ Len(ic_state.calls) >= 1
    /\ ic_state.is_ready

---------------------------------------------------------------------------
(* The stake of a returned ValidationResult *)

\* C36: every call of ValidatorAgent.process deducts from the balance of the
\* validator the stake_amount its result carries, and records the result.
\* process holds no await that suspends (_run_validation_model and
\* stake_tokens await nothing themselves), so each call runs from its first
\* line to its return in one step of the event loop, and calls that are in
\* flight together for different events are calls in some order.
C36_StakeDeducted ==
    [][\A v \in Validators, event \in ScoringEvents, noise \in Noise :
           ValidatorProcess(v, event, noise)
           => /\ last_validation'[v].event_id = event.event_id
              /\ last_validation'[v].stake_amount >= 0
              /\ stake_balance'[v] = stake_balance[v] - last_validation'[v].stake_amount
              /\ stake_balance'[v] >= 0
              /\ validation_history'[v] = validation_history[v] + 1]_vars

\* a validator whose balance has fallen below a fifth of its initial stake,
\* so that the stake of its last result was half of what it held
C36_Witness ==
    \E v \in DOMAIN last_validation :
        /\ 5 * stake_balance[v] < InitialStake(v)
        /\ last_validation[v].stake_amount > 0
        /\ stake_balance[v] - last_validation[v].stake_amount \in {0, 1}

\* ---------------------------------------------------------------------
\* api_server.py: the system lifecycle endpoints. api_server.systems holds
\* every EnhancedAegisSystem the process has constructed, by number;
\* aegis_system is the global, <<>> for None or <<n>>; loops holds the
\* _monitor_source tasks that are in their loop, <<n, source>> for the task
\* of a source in the network of system n, with the polls each has made.
\* No websocket is connected under this specification, so the
\* broadcast_update that ends each handler iterates an empty list.
\* ---------------------------------------------------------------------
MaxSystems == 2
MaxLoopPolls == 2

\* DecentralizedOracleNetwork.__init__ inside EnhancedAegisSystem.__init__;
\* initializing is true until initialize_system of the system has returned
NewSystem == [monitoring_active |-> FALSE, monitoring_tasks |-> {}, initializing |-> TRUE]

\* start_monitoring that creates the tasks again although monitoring is active
DonStartMonitoringAgain(api, n) ==
    [api EXCEPT !.systems[n].monitoring_active = TRUE,
                !.systems[n].monitoring_tasks = DataSources,
                !.loops = [t \in (DOMAIN api.loops) \cup { <<n, s>> : s \in DataSources } |->
                              IF t \in DOMAIN api.loops THEN api.loops[t] ELSE 0]]

\* start_monitoring of the network of system n: nothing when monitoring is
\* active, else one task per source
DonStartMonitoring(api, n) ==
    IF api.systems[n].monitoring_active
    THEN api
    ELSE [api EXCEPT !.systems[n].monitoring_active = TRUE,
                     !.systems[n].monitoring_tasks = DataSources,
                     !.loops = [t \in (DOMAIN api.loops) \cup { <<n, s>> : s \in DataSources } |->
                                   IF t \in DOMAIN api.loops THEN api.loops[t] ELSE 0]]

\* stop_monitoring of the network of system n: the flag is cleared and every
\* task of monitoring_tasks is cancelled; a cancelled task runs no further
\* line of its loop, so it leaves loops here
DonStopMonitoring(api, n) ==
    [api EXCEPT !.systems[n].monitoring_active = FALSE,
                !.systems[n].monitoring_tasks = {},
                !.loops = [t \in { u \in DOMAIN api.loops :
                                      ~(u[1] = n /\ u[2] \in api.systems[n].monitoring_tasks) } |->
                              api.loops[t]]]

api_server_others ==
    <<now, active_events, event_pipeline, stake_balance, validation_history,
      last_validation, pending_validations, consensus_results, active_daos,
      parametric_vault_balance, event_log, vault_balance, payout_history,
      action_inbox, handler_log, monitoring_active, monitoring_tasks,
      asyncio_tasks, polls, last_call, oracle_agent, governance, ic_state, ws_server>>

\* POST /api/initialize up to the first suspension: the global is replaced
\* by a new system, whatever it held, and deploy_canisters sleeps
InitializeSystem ==
    LET n == Cardinality(DOMAIN api_server.systems) + 1
    IN  /\ n <= MaxSystems
        /\ api_server' = [api_server EXCEPT !.aegis_system = <<n>>,
                                            !.systems = Put(api_server.systems, n, NewSystem)]
        /\ UNCHANGED api_server_others

\* EnhancedAegisSystem.initialize_system of system n after the deployment:
\* self.don.start_monitoring(), on the system the call was made on
InitializeSystemResumes(n) ==
    /\ n \in DOMAIN api_server.systems
    /\ api_server.systems[n].initializing
    /\ api_server' = [DonStartMonitoring(api_server, n) EXCEPT !.systems[n].initializing = FALSE]
    /\ UNCHANGED api_server_others

\* POST /api/don/start
StartDon ==
    /\ api_server.aegis_system # <<>>
    /\ api_server' = DonStartMonitoring(api_server, api_server.aegis_system[1])
    /\ UNCHANGED api_server_others

\* POST /api/don/stop
StopDon ==
    /\ api_server.aegis_system # <<>>
    /\ api_server' = DonStopMonitoring(api_server, api_server.aegis_system[1])
    /\ UNCHANGED api_server_others

\* POST /api/stop
StopSystem ==
    /\ api_server' = IF api_server.aegis_system # <<>>
                     THEN [DonStopMonitoring(api_server, api_server.aegis_system[1])
                              EXCEPT !.aegis_system = <<>>]
                     ELSE api_server
    /\ UNCHANGED api_server_others

\* _monitor_source: a task wakes, finds monitoring_active of its own network
\* true and polls its source
MonitorSourcePolls(t) ==
    /\ t \in DOMAIN api_server.loops
    /\ api_server.systems[t[1]].monitoring_active
    /\ api_server.polls < MaxLoopPolls
    /\ api_server' = [api_server EXCEPT !.loops[t] = @ + 1, !.polls = @ + 1]
    /\ UNCHANGED api_server_others

NextApi ==
    \/ InitializeSystem
    \/ \E n \in DOMAIN api_server.systems : InitializeSystemResumes(n)
    \/ StartDon
    \/ StopDon
    \/ StopSystem
    \/ \E t \in DOMAIN api_server.loops : MonitorSourcePolls(t)

SpecApi == Init /\ [][NextApi]_vars

\* C37: at most one monitoring loop per data source is running in the
\* process, whatever lifecycle endpoints were called: no loop of a replaced
\* or stopped system is left, and start_monitoring of an active network
\* creates no task.
C37_OneLoopPerSource ==
    /\ \A s \in DataSources :
          Cardinality({ t \in DOMAIN api_server.loops : t[2] = s }) <= 1
    /\ \A t \in DOMAIN api_server.loops :
          /\ api_server.aegis_system = <<t[1]>>
          /\ api_server.systems[t[1]].monitoring_active

\* ---------------------------------------------------------------------
\* api_server.py: the websocket endpoint and broadcast_update. Each client
\* has one websocket_endpoint task; ws_server.endpoints[w] tells whether
\* the client of websocket w is still there (client_open) and whether its
\* endpoint task is still in its heartbeat loop (running). A call of
\* broadcast_update is a record of ws_server.broadcasts: the websocket it
\* awaits send_json on, the list index its for loop reads next, its local
\* list disconnected, who received the message, and who was connected when
\* it began. ws_server.raised collects the calls a ValueError left.
\* ---------------------------------------------------------------------
MaxSockets == 3
MaxBroadcasts == 2

WebSockets == 1 .. MaxSockets
BroadcastCalls == 1 .. MaxBroadcasts

InList(list, w) == \E i \in 1 .. Len(list) : list[i] = w

\* list.remove(w) of a list that holds w
ListRemove(list, w) == SelectSeq(list, LAMBDA x : x # w)

\* lines 403-404: connected_websockets.remove(ws) for each ws of
\* disconnected; the remove of an absent websocket raises ValueError and
\* ends the loop
RECURSIVE RemoveDisconnected(_, _)
RemoveDisconnected(list, disconnected) ==
    IF disconnected = <<>> THEN [list |-> list, raised |-> FALSE]
    ELSE IF InList(list, Head(disconnected))
         THEN RemoveDisconnected(ListRemove(list, Head(disconnected)), Tail(disconnected))
         ELSE [list |-> list, raised |-> TRUE]

\* the for loop of broadcast_update takes its next websocket: the list
\* iterator reads connected_websockets[index] of the list as it is now, and
\* when the index is past the end the removal of lines 403-404 runs
BroadcastAdvances(ws, b, call) ==
    IF call.index <= Len(ws.connected_websockets)
    THEN [ws EXCEPT !.broadcasts = Put(ws.broadcasts, b,
                        [call EXCEPT !.pc = "send_json",
                                     !.websocket = ws.connected_websockets[call.index],
                                     !.index = call.index + 1])]
    ELSE LET removed == RemoveDisconnected(ws.connected_websockets, call.disconnected)
         IN  [ws EXCEPT !.connected_websockets = removed.list,
                        !.broadcasts = Put(ws.broadcasts, b,
                             [call EXCEPT !.pc = IF removed.raised THEN "raised" ELSE "returned",
                                          !.websocket = 0]),
                        !.raised = IF removed.raised THEN @ \cup {<<"broadcast_update", b>>} ELSE @]

ws_server_others ==
    <<now, active_events, event_pipeline, stake_balance, validation_history,
      last_validation, pending_validations, consensus_results, active_daos,
      parametric_vault_balance, event_log, vault_balance, payout_history,
      action_inbox, handler_log, monitoring_active, monitoring_tasks,
      asyncio_tasks, polls, last_call, oracle_agent, governance, ic_state, api_server>>

\* websocket_endpoint up to its heartbeat loop: accept and append
WebsocketConnects(w) ==
    /\ w \notin DOMAIN ws_server.endpoints
    /\ ws_server' = [ws_server EXCEPT
                        !.connected_websockets = Append(@, w),
                        !.endpoints = Put(@, w, [client_open |-> TRUE, running |-> TRUE])]
    /\ UNCHANGED ws_server_others

\* the client of w goes away; nothing in the server runs yet
ClientDisconnects(w) ==
    /\ w \in DOMAIN ws_server.endpoints
    /\ ws_server.endpoints[w].client_open
    /\ ws_server' = [ws_server EXCEPT !.endpoints[w].client_open = FALSE]
    /\ UNCHANGED ws_server_others

\* the heartbeat send_json of the endpoint of w fails on the closed
\* connection. The exception is WebSocketDisconnect or another Exception,
\* by the server library: the first handler removes w unguarded, the second
\* only when w is in the list.
HeartbeatFails(w, exception) ==
    /\ w \in DOMAIN ws_server.endpoints
    /\ ws_server.endpoints[w].running /\ ~ws_server.endpoints[w].client_open
    /\ LET present == InList(ws_server.connected_websockets, w)
       IN  ws_server' = [ws_server EXCEPT
                            !.endpoints[w].running = FALSE,
                            !.connected_websockets = ListRemove(@, w),
                            !.raised = IF ~present /\ exception = "WebSocketDisconnect"
                                       THEN @ \cup {<<"websocket_endpoint", w>>} ELSE @]
    /\ UNCHANGED ws_server_others

\* broadcast_update is called: nothing with an empty list, else the loop
\* starts and suspends in the first send_json
BroadcastUpdate(b) ==
    /\ b \notin DOMAIN ws_server.broadcasts
    /\ b = Cardinality(DOMAIN ws_server.broadcasts) + 1
    /\ ws_server.connected_websockets # <<>>
    /\ ws_server' = BroadcastAdvances(ws_server, b,
                       [pc |-> "created", websocket |-> 0, index |-> 1, disconnected |-> <<>>,
                        received |-> {},
                        audience |-> { w \in WebSockets : InList(ws_server.connected_websockets, w) }])
    /\ UNCHANGED ws_server_others

\* send_json of a broadcast returns, or raises on a closed connection and
\* the websocket joins disconnected; the loop goes on without suspending
SendJsonReturns(b) ==
    /\ b \in DOMAIN ws_server.broadcasts
    /\ ws_server.broadcasts[b].pc = "send_json"
    /\ LET call == ws_server.broadcasts[b]
           w == call.websocket
       IN  ws_server' = BroadcastAdvances(ws_server, b,
                           IF ws_server.endpoints[w].client_open
                           THEN [call EXCEPT !.received = @ \cup {w}]
                           ELSE [call EXCEPT !.disconnected = Append(@, w)])
    /\ UNCHANGED ws_server_others

NextWs ==
    \/ \E w \in WebSockets : WebsocketConnects(w)
    \/ \E w \in WebSockets : ClientDisconnects(w)
    \/ \E w \in WebSockets, exception \in {"WebSocketDisconnect", "Exception"} :
          HeartbeatFails(w, exception)
    \/ \E b \in BroadcastCalls : BroadcastUpdate(b)
    \/ \E b \in BroadcastCalls : SendJsonReturns(b)

SpecWs == Init /\ [][NextWs]_vars

\* C38: no remove of a websocket that is not in connected_websockets is
\* ever tried, by broadcast_update or by the endpoint, so no broadcast
\* raises, and a broadcast that has ended has reached every subscriber that
\* was connected when it began and is connected still.
C38_RemovedOnce ==
    /\ ws_server.raised = {}
    /\ \A b \in DOMAIN ws_server.broadcasts :
          ws_server.broadcasts[b].pc \in {"returned", "raised"} =>
             \A w \in ws_server.broadcasts[b].audience :
                (ws_server.endpoints[w].client_open
                    /\ InList(ws_server.connected_websockets, w))
                   => w \in ws_server.broadcasts[b].received

---------------------------------------------------------------------------
(* The oracle agent: a send that fails *)

\* the events of new_earthquakes_to_send of any run that await their send
AwaitingSend ==
    UNION { { oracle_agent.runs[run].new_earthquakes_to_send[k] :
                 k \in 1..Len(oracle_agent.runs[run].new_earthquakes_to_send) } :
            run \in DOMAIN oracle_agent.runs }

\* C39: an event is in SEEN_EVENT_IDS before its send is tried and a failed
\* send is only logged: its identifier stays seen, no other send, earlier or
\* later, carries it and no run holds it for sending; the run whose send
\* failed goes on with the rest of its new events.
C39_FailedSendNotRetried ==
    /\ [](\A i \in 1..Len(oracle_agent.sent) :
             ~oracle_agent.sent[i].delivered =>
                /\ OracleEventId(oracle_agent.sent[i].eq_data) \in oracle_agent.SEEN_EVENT_IDS
                /\ \A j \in 1..Len(oracle_agent.sent) :
                      j # i => OracleEventId(oracle_agent.sent[j].eq_data)
                                  # OracleEventId(oracle_agent.sent[i].eq_data)
                /\ \A eq_data \in AwaitingSend :
                      OracleEventId(eq_data) # OracleEventId(oracle_agent.sent[i].eq_data))
    /\ [](\A eq_data \in AwaitingSend : OracleEventId(eq_data) \in oracle_agent.SEEN_EVENT_IDS)
    /\ [][\A run \in DOMAIN oracle_agent.runs :
             SendReturns(run, TRUE) =>
                LET pending == oracle_agent.runs[run].new_earthquakes_to_send
                IN  /\ oracle_agent.SEEN_EVENT_IDS' = oracle_agent.SEEN_EVENT_IDS
                    /\ IF Tail(pending) = <<>>
                       THEN run \notin DOMAIN oracle_agent.runs'
                       ELSE IF run \in DOMAIN oracle_agent.runs'
                            THEN oracle_agent.runs'[run] =
                                    [pc |-> "send", new_earthquakes_to_send |-> Tail(pending)]
                            ELSE FALSE]_vars

\* the first send failed and the next event was delivered all the same;
\* a later fetch brought the failed event again and it was filtered
C39_Witness ==
    /\ oracle_agent.intervals = MaxIntervals
    /\ oracle_agent.runs = EmptyDict
    /\ Len(oracle_agent.sent) = 2
    /\ ~oracle_agent.sent[1].delivered
    /\ oracle_agent.sent[1].eq_data.source = "USGS_API_Oracle"
    /\ oracle_agent.sent[2].delivered
    /\ oracle_agent.sent[2].eq_data.source = "BMKG_API_Oracle"
    /\ OracleEventId(oracle_agent.sent[1].eq_data) \in oracle_agent.duplicates

===========================================================================
